---- MODULE Spec2Model ----
(***************************************************************************)
(* A model of the document front end of saba: the HTML tree builder        *)
(* (saba_core/src/renderer/html/parser.rs) over the DOM of dom/node.rs,    *)
(* and the layout tree builder of layout/layout_view.rs and                *)
(* layout/layout_object.rs.                                                *)
(*                                                                         *)
(* Spec       : HtmlParser::construct_tree, one action per insertion mode  *)
(*              (one action = one iteration of the `while` loop).          *)
(***************************************************************************)
EXTENDS Integers, Sequences, FiniteSets, TLC

\* Number of tokens the tokenizer may yield before it is exhausted.
MaxTokens == 5

SPACE == " "
LINE_FEED == "\n"

Last(s) == s[Len(s)]
Front(s) == SubSeq(s, 1, Len(s) - 1)

(***************************************************************************)
(* Tokens (html/token.rs is not part of the sources: the shape of          *)
(* HtmlToken is the one construct_tree matches on).                        *)
(***************************************************************************)
Chars == {SPACE, LINE_FEED, "a", "b"}

\* "x" stands for any tag name ElementKind::from_str does not know.
TagNames == {"html", "head", "style", "script", "body", "p", "h1", "h2", "a", "x"}

Attr(n, v) == [name |-> n, value |-> v]

AttrLists == {<<>>, <<Attr("id", "k"), Attr("class", "hidden")>>}

CharTok(ch) == [type |-> "Char", tag |-> "", attributes |-> <<>>, c |-> ch]
StartTagTok(t, as) == [type |-> "StartTag", tag |-> t, attributes |-> as, c |-> ""]
EndTagTok(t) == [type |-> "EndTag", tag |-> t, attributes |-> <<>>, c |-> ""]
EofTok == [type |-> "Eof", tag |-> "", attributes |-> <<>>, c |-> ""]
NoneTok == [type |-> "None", tag |-> "", attributes |-> <<>>, c |-> ""]

HtmlToken ==
    {CharTok(ch) : ch \in Chars}
        \cup {StartTagTok(t, as) : t \in TagNames, as \in AttrLists}
        \cup {EndTagTok(t) : t \in TagNames}
        \cup {EofTok}

InsertionMode ==
    {"Initial", "BeforeHtml", "BeforeHead", "InHead", "AfterHead", "InBody",
     "Text", "AfterBody", "AfterAfterBody"}

(***************************************************************************)
(* DOM: an arena of nodes; 0 is the absent reference (None / Weak::new()). *)
(* Node 1 is the Document of the Window.                                   *)
(***************************************************************************)
NewNode(k, ek, as, txt) ==
    [kind |-> k, ekind |-> ek, attributes |-> as, text |-> txt,
     parent |-> 0, first_child |-> 0, last_child |-> 0, next_sibling |-> 0]

Document == 1

WindowNew == <<NewNode("Document", "", <<>>, <<>>)>>

\* from_str that also knows p, h1, h2 and a.
ElementKindFromStr_body_tags(s) ==
    CASE s = "html" -> [ok |-> TRUE, kind |-> "Html"]
      [] s = "head" -> [ok |-> TRUE, kind |-> "Head"]
      [] s = "style" -> [ok |-> TRUE, kind |-> "Style"]
      [] s = "script" -> [ok |-> TRUE, kind |-> "Script"]
      [] s = "body" -> [ok |-> TRUE, kind |-> "Body"]
      [] s = "p" -> [ok |-> TRUE, kind |-> "P"]
      [] s = "h1" -> [ok |-> TRUE, kind |-> "H1"]
      [] s = "h2" -> [ok |-> TRUE, kind |-> "H2"]
      [] s = "a" -> [ok |-> TRUE, kind |-> "A"]
      [] OTHER -> [ok |-> FALSE, kind |-> ""]

\* ElementKind::from_str: Ok(kind) or Err.
ElementKindFromStr(s) ==
    CASE s = "html" -> [ok |-> TRUE, kind |-> "Html"]
      [] s = "head" -> [ok |-> TRUE, kind |-> "Head"]
      [] s = "style" -> [ok |-> TRUE, kind |-> "Style"]
      [] s = "script" -> [ok |-> TRUE, kind |-> "Script"]
      [] s = "body" -> [ok |-> TRUE, kind |-> "Body"]
      [] OTHER -> [ok |-> FALSE, kind |-> ""]

\* Node::element_kind: "" is None.
ElementKindOf(n) == IF n.kind = "Element" THEN n.ekind ELSE ""

VARIABLES
    mode,                       \* HtmlParser.mode
    original_insertion_mode,    \* HtmlParser.original_insertion_mode
    stack_of_open_elements,     \* HtmlParser.stack_of_open_elements (node ids)
    nodes,                      \* the DOM arena owned by HtmlParser.window
    token,                      \* the local `token` of construct_tree
    pos,                        \* number of calls of HtmlTokenizer::next so far
    pc,                         \* "start", "loop", "returned", "panic", "hang"
    run,                        \* history: the character tokens InBody is in the middle of
    text_entry,                 \* history: the open-element stack when Text was last entered
    cssom,                      \* the StyleSheet handed to the layout code (its rules)
    layout,                     \* the box arena and LayoutView.root (0 is None)
    candidate,                  \* history: the style resolved for the last box candidate
    lpc,                        \* layout: "idle", "built", "view", "panic"
    input,                      \* CssTokenizer.input
    css_pos,                    \* CssTokenizer.pos
    css_tokens,                 \* the tokens next has returned so far
    cpc,                        \* tokenizer: "idle", "run", "done", "panic"
    input_url,                  \* WasabiUI.input_url
    input_mode,                 \* WasabiUI.input_mode
    address_bar,                \* the text drawn in the address bar
    page,                       \* the fields of Browser.current_page()
    responses,                  \* number of responses handle_url has returned
    content_area,               \* what is drawn in the content area of the window
    clears,                     \* history: number of calls of clear_content_area
    ui_pc                       \* UI: "idle", "run", "failed", "panic", "hang"

pvars ==
    <<mode, original_insertion_mode, stack_of_open_elements, nodes, token, pos, pc, run,
      text_entry>>

lvars == <<cssom, layout, candidate, lpc>>

cvars == <<input, css_pos, css_tokens, cpc>>

uvars ==
    <<input_url, input_mode, address_bar, page, responses, content_area, clears, ui_pc>>

vars ==
    <<mode, original_insertion_mode, stack_of_open_elements, nodes, token, pos, pc, run,
      text_entry, cssom, layout, candidate, lpc, input, css_pos, css_tokens, cpc,
      input_url, input_mode, address_bar, page, responses, content_area, clears, ui_pc>>

(***************************************************************************)
(* The builder state one loop iteration works on, and what it did:         *)
(*   ok      = FALSE when an assert!/expect failed (the thread panics)     *)
(*   consume = TRUE  when the iteration called self.t.next()               *)
(*   exit    = TRUE  when the iteration left the loop (return / break)     *)
(***************************************************************************)
Cur ==
    [mode |-> mode, oim |-> original_insertion_mode,
     stack |-> stack_of_open_elements, nodes |-> nodes,
     ok |-> TRUE, consume |-> FALSE, exit |-> FALSE]

SetMode(r, m) == [r EXCEPT !.mode = m]
SaveMode(r) == [r EXCEPT !.oim = r.mode]
Consume(r) == [r EXCEPT !.consume = TRUE]
Return(r) == [r EXCEPT !.exit = TRUE]
Panic(r) == [r EXCEPT !.ok = FALSE]

contains_in_stack(r, element_kind) ==
    \E i \in 1..Len(r.stack) : ElementKindOf(r.nodes[r.stack[i]]) = element_kind

RECURSIVE PopLoop(_, _, _)
PopLoop(ns, st, element_kind) ==
    IF st = <<>> THEN st
    ELSE IF ElementKindOf(ns[Last(st)]) = element_kind THEN Front(st)
    ELSE PopLoop(ns, Front(st), element_kind)

pop_until(r, element_kind) ==
    IF ~contains_in_stack(r, element_kind) THEN Panic(r)
    ELSE [r EXCEPT !.stack = PopLoop(r.nodes, r.stack, element_kind)]

\* pop_current_node returns whether it popped: Popped(r, k) is the flag,
\* pop_current_node(r, k) the state after the call.
Popped(r, element_kind) ==
    /\ r.stack # <<>>
    /\ ElementKindOf(r.nodes[Last(r.stack)]) = element_kind

pop_current_node(r, element_kind) ==
    IF Popped(r, element_kind) THEN [r EXCEPT !.stack = Front(r.stack)] ELSE r

\* insert_node with the branch on last_child lost: the new node always
\* becomes the first child.
insert_node_first(r, parent, new_node) ==
    LET id == Len(r.nodes) + 1
        linked == [r.nodes EXCEPT ![parent].first_child = id,
                                  ![parent].last_child = id]
    IN  [r EXCEPT !.nodes = Append(linked, [new_node EXCEPT !.parent = parent]),
                  !.stack = Append(r.stack, id)]

\* insert_node that leaves the parent's last_child as it was.
insert_node_stale_last(r, parent, new_node) ==
    LET id == Len(r.nodes) + 1
        last_child == r.nodes[parent].last_child
        linked ==
            IF last_child # 0
            THEN [r.nodes EXCEPT ![last_child].next_sibling = id]
            ELSE [r.nodes EXCEPT ![parent].first_child = id]
    IN  [r EXCEPT !.nodes = Append(linked, [new_node EXCEPT !.parent = parent]),
                  !.stack = Append(r.stack, id)]

insert_node(r, parent, new_node) ==
    LET id == Len(r.nodes) + 1
        last_child == r.nodes[parent].last_child
        linked ==
            IF last_child # 0
            THEN [r.nodes EXCEPT ![last_child].next_sibling = id,
                                 ![parent].last_child = id]
            ELSE [r.nodes EXCEPT ![parent].first_child = id,
                                 ![parent].last_child = id]
    IN  [r EXCEPT !.nodes = Append(linked, [new_node EXCEPT !.parent = parent]),
                  !.stack = Append(r.stack, id)]

\* insert_char without the test for SPACE / LINE_FEED.
insert_char_any(r, c) ==
    IF r.stack = <<>> THEN r
    ELSE LET current == Last(r.stack) IN
         IF r.nodes[current].kind = "Text"
         THEN [r EXCEPT !.nodes[current].text = Append(@, c)]
         ELSE insert_node(r, current, NewNode("Text", "", <<>>, <<c>>))

create_char(c) == NewNode("Text", "", <<>>, <<c>>)

insert_char(r, c) ==
    IF r.stack = <<>> THEN r
    ELSE LET current == Last(r.stack) IN
         IF r.nodes[current].kind = "Text"
         THEN [r EXCEPT !.nodes[current].text = Append(@, c)]
         ELSE IF c = SPACE \/ c = LINE_FEED THEN r
         ELSE insert_node(r, current, create_char(c))

\* insert_element that hangs every element under the Document.
insert_element_under_document(r, tag, attributes) ==
    IF ~ElementKindFromStr(tag).ok THEN Panic(r)
    ELSE insert_node(r, Document,
                     NewNode("Element", ElementKindFromStr(tag).kind, attributes, <<>>))

\* Element::new panics (expect) when ElementKind::from_str fails.
insert_element(r, tag, attributes) ==
    LET current == IF r.stack = <<>> THEN Document ELSE Last(r.stack)
        k == ElementKindFromStr(tag)
    IN  IF ~k.ok THEN Panic(r)
        ELSE insert_node(r, current, NewNode("Element", k.kind, attributes, <<>>))

IsWs(t) == t.type = "Char" /\ (t.c = SPACE \/ t.c = LINE_FEED)

(***************************************************************************)
(* One loop iteration per insertion mode.                                  *)
(***************************************************************************)
InitialStep ==
    IF token.type = "Char" THEN Consume(Cur) ELSE SetMode(Cur, "BeforeHtml")

BeforeHtmlStep ==
    IF IsWs(token) THEN Consume(Cur)
    ELSE IF token.type = "StartTag" /\ token.tag = "html"
    THEN Consume(SetMode(insert_element(Cur, token.tag, token.attributes), "BeforeHead"))
    ELSE IF token.type = "Eof" THEN Return(Cur)
    ELSE SetMode(insert_element(Cur, "head", <<>>), "InHead")

BeforeHeadStep ==
    IF IsWs(token) THEN Consume(Cur)
    ELSE IF token.type = "StartTag" /\ token.tag = "head"
    THEN Consume(SetMode(insert_element(Cur, token.tag, token.attributes), "InHead"))
    ELSE IF token.type = "Eof" THEN Return(Cur)
    ELSE Cur

InHeadStep ==
    IF IsWs(token) THEN Consume(Cur)
    ELSE IF token.type = "StartTag" /\ token.tag \in {"style", "script"}
    THEN Consume(SetMode(SaveMode(insert_element(Cur, token.tag, token.attributes)), "Text"))
    ELSE IF token.type = "StartTag" /\ token.tag = "body"
    THEN SetMode(pop_until(Cur, "Head"), "AfterHead")
    ELSE IF token.type = "StartTag" /\ ElementKindFromStr(token.tag).ok
    THEN SetMode(pop_until(Cur, "Head"), "AfterHead")
    ELSE IF token.type = "EndTag" /\ token.tag = "head"
    THEN pop_until(Consume(SetMode(Cur, "AfterHead")), "Head")
    ELSE IF token.type = "Eof" THEN Return(Cur)
    ELSE Consume(Cur)

\* AfterHeadStep where the token that makes the body is consumed.
AfterHeadStep_consume ==
    IF IsWs(token) THEN Consume(insert_char(Cur, token.c))
    ELSE IF token.type = "StartTag" /\ token.tag = "body"
    THEN SetMode(Consume(insert_element(Cur, token.tag, token.attributes)), "InBody")
    ELSE IF token.type = "Eof" THEN Return(Cur)
    ELSE Consume(SetMode(insert_element(Cur, "body", <<>>), "InBody"))

\* AfterHeadStep that makes the missing body and stays in AfterHead.
AfterHeadStep_stay ==
    IF IsWs(token) THEN Consume(insert_char(Cur, token.c))
    ELSE IF token.type = "StartTag" /\ token.tag = "body"
    THEN SetMode(Consume(insert_element(Cur, token.tag, token.attributes)), "InBody")
    ELSE IF token.type = "Eof" THEN Return(Cur)
    ELSE Consume(insert_element(Cur, "body", <<>>))

AfterHeadStep ==
    IF IsWs(token) THEN Consume(insert_char(Cur, token.c))
    ELSE IF token.type = "StartTag" /\ token.tag = "body"
    THEN SetMode(Consume(insert_element(Cur, token.tag, token.attributes)), "InBody")
    ELSE IF token.type = "Eof" THEN Return(Cur)
    ELSE SetMode(insert_element(Cur, "body", <<>>), "InBody")

InBodyStep ==
    CASE token.type = "StartTag" ->
            IF token.tag \in {"p", "h1", "h2", "a"}
            THEN Consume(insert_element(Cur, token.tag, token.attributes))
            ELSE Consume(Cur)
      [] token.type = "EndTag" ->
            IF token.tag = "body"
            THEN LET r == Consume(SetMode(Cur, "AfterBody")) IN
                 IF ~contains_in_stack(r, "Body") THEN r ELSE pop_until(r, "Body")
            ELSE IF token.tag = "html"
            THEN IF Popped(Cur, "Body")
                 THEN LET r == SetMode(pop_current_node(Cur, "Body"), "AfterBody") IN
                      IF Popped(r, "Html") THEN pop_current_node(r, "Html") ELSE Panic(r)
                 ELSE Consume(Cur)
            ELSE IF token.tag \in {"p", "h1", "h2", "a"}
            THEN LET k == ElementKindFromStr(token.tag) IN
                 IF ~k.ok THEN Panic(Cur) ELSE pop_until(Consume(Cur), k.kind)
            ELSE Consume(Cur)
      [] token.type = "Eof" -> Return(Cur)
      [] OTHER -> Consume(insert_char(Cur, token.c))

\* TextStep where the end tag pops the current node only.
TextStep_pop_top ==
    IF token.type = "EndTag" /\ token.tag \in {"style", "script"}
    THEN Consume(SetMode([Cur EXCEPT !.stack = Front(@)], Cur.oim))
    ELSE IF token.type = "Char" THEN Consume(insert_char(Cur, token.c))
    ELSE IF token.type = "Eof" THEN Return(Cur)
    ELSE Cur

TextStep ==
    IF token.type = "EndTag" /\ token.tag = "style"
    THEN LET r == pop_until(Cur, "Style") IN Consume(SetMode(r, r.oim))
    ELSE IF token.type = "EndTag" /\ token.tag = "script"
    THEN LET r == pop_until(Cur, "Script") IN Consume(SetMode(r, r.oim))
    ELSE IF token.type = "Char" THEN Consume(insert_char(Cur, token.c))
    ELSE IF token.type = "Eof" THEN Return(Cur)
    ELSE Cur

\* AfterBodyStep whose fallback goes to AfterHead.
AfterBodyStep_back ==
    IF token.type = "Char" THEN Consume(Cur)
    ELSE IF token.type = "EndTag" /\ token.tag = "html"
    THEN Consume(SetMode(Cur, "AfterAfterBody"))
    ELSE IF token.type = "Eof" THEN Return(Cur)
    ELSE SetMode(Cur, "AfterHead")

AfterBodyStep ==
    IF token.type = "Char" THEN Consume(Cur)
    ELSE IF token.type = "EndTag" /\ token.tag = "html"
    THEN Consume(SetMode(Cur, "AfterAfterBody"))
    ELSE IF token.type = "Eof" THEN Return(Cur)
    ELSE SetMode(Cur, "InBody")

AfterAfterBodyStep ==
    IF token.type = "Char" THEN Consume(Cur)
    ELSE IF token.type = "Eof" THEN Return(Cur)
    ELSE Cur

(***************************************************************************)
(* HtmlTokenizer::next: Some(token) while input is left, None afterwards.  *)
(***************************************************************************)
TNext ==
    /\ pos' = pos + 1
    /\ \/ pos < MaxTokens /\ token' \in HtmlToken
       \/ token' = NoneTok

(***************************************************************************)
(* The effect of one iteration on the program.  An iteration that returns  *)
(* r = Cur has assigned nothing and read no token: the loop re-enters the  *)
(* same arm with the same token for ever (pc = "hang").                    *)
(***************************************************************************)
Commit(r) ==
    /\ UNCHANGED lvars
    /\ UNCHANGED <<cvars, uvars>>
    /\ IF ~r.ok
       THEN /\ pc' = "panic"
            /\ UNCHANGED <<mode, original_insertion_mode, stack_of_open_elements,
                           nodes, token, pos>>
       ELSE /\ mode' = r.mode
            /\ original_insertion_mode' = r.oim
            /\ stack_of_open_elements' = r.stack
            /\ nodes' = r.nodes
            /\ pc' = IF r.exit THEN "returned" ELSE IF r = Cur THEN "hang" ELSE "loop"
            /\ IF r.consume THEN TNext ELSE UNCHANGED <<token, pos>>

InLoop(m) == pc = "loop" /\ token.type # "None" /\ mode = m

(***************************************************************************)
(* History of the current maximal run of character tokens handled by       *)
(* InBody: the characters so far, the size of the arena and the top of the *)
(* open-element stack (0 when empty) when the run began.  It is written by *)
(* InBody alone and read by no action.                                     *)
(***************************************************************************)
NoRun == [chars |-> <<>>, base |-> 0, top |-> 0]

RunAfter(r) ==
    IF token.type = "Char" /\ r.ok
    THEN IF run.chars = <<>>
         THEN [chars |-> <<token.c>>, base |-> Len(nodes),
               top |-> IF stack_of_open_elements = <<>> THEN 0
                       ELSE Last(stack_of_open_elements)]
         ELSE [run EXCEPT !.chars = Append(@, token.c)]
    ELSE NoRun

\* let mut token = self.t.next();
Start ==
    /\ pc = "start"
    /\ pc' = "loop"
    /\ TNext
    /\ UNCHANGED <<mode, original_insertion_mode, stack_of_open_elements, nodes, run,
                   text_entry>>
    /\ UNCHANGED lvars
    /\ UNCHANGED <<cvars, uvars>>

\* while token.is_some() { ... }  Rc::clone(&self.window)
LoopExit ==
    /\ pc = "loop"
    /\ token.type = "None"
    /\ pc' = "returned"
    /\ UNCHANGED <<mode, original_insertion_mode, stack_of_open_elements, nodes, token,
                   pos, run, text_entry>>
    /\ UNCHANGED lvars
    /\ UNCHANGED <<cvars, uvars>>

Initial == InLoop("Initial") /\ Commit(InitialStep) /\ UNCHANGED <<run, text_entry>>
BeforeHtml == InLoop("BeforeHtml") /\ Commit(BeforeHtmlStep) /\ UNCHANGED <<run, text_entry>>
BeforeHead == InLoop("BeforeHead") /\ Commit(BeforeHeadStep) /\ UNCHANGED <<run, text_entry>>
InHead ==
    /\ InLoop("InHead")
    /\ Commit(InHeadStep)
    /\ text_entry' = IF InHeadStep.ok /\ InHeadStep.mode = "Text"
                     THEN stack_of_open_elements ELSE text_entry
    /\ UNCHANGED run
AfterHead == InLoop("AfterHead") /\ Commit(AfterHeadStep) /\ UNCHANGED <<run, text_entry>>
InBody ==
    /\ InLoop("InBody")
    /\ Commit(InBodyStep)
    /\ run' = RunAfter(InBodyStep)
    /\ UNCHANGED text_entry
Text == InLoop("Text") /\ Commit(TextStep) /\ UNCHANGED <<run, text_entry>>
AfterBody == InLoop("AfterBody") /\ Commit(AfterBodyStep) /\ UNCHANGED <<run, text_entry>>
AfterAfterBody == InLoop("AfterAfterBody") /\ Commit(AfterAfterBodyStep) /\ UNCHANGED <<run, text_entry>>

(***************************************************************************)
(* Reading the DOM.                                                        *)
(***************************************************************************)
\* The children of p: first_child, then next_sibling links (at most fuel).
RECURSIVE Chain(_, _, _)
Chain(ns, n, fuel) ==
    IF n = 0 \/ fuel = 0 THEN <<>> ELSE <<n>> \o Chain(ns, ns[n].next_sibling, fuel - 1)

Children(ns, p) == Chain(ns, ns[p].first_child, Len(ns))

IsSpace(c) == c = SPACE \/ c = LINE_FEED

RECURSIVE StripLeading(_)
StripLeading(cs) ==
    IF cs = <<>> THEN cs
    ELSE IF IsSpace(cs[1]) THEN StripLeading(Tail(cs)) ELSE cs

(***************************************************************************)
(* CSSOM.  css/cssom.rs is not part of the sources; the shapes are those   *)
(* layout_object.rs matches on: StyleSheet.rules, rule.selector,           *)
(* rule.declarations, declaration.property / value, ComponentValue.        *)
(***************************************************************************)
Ident(v) == [type |-> "Ident", v |-> v]
HashToken(v) == [type |-> "HashToken", v |-> v]
Number(v) == [type |-> "Number", v |-> v]

Declaration(p, v) == [property |-> p, value |-> v]

TypeSelector(n) == [type |-> "TypeSelector", name |-> n]
ClassSelector(n) == [type |-> "ClassSelector", name |-> n]
IdSelector(n) == [type |-> "IdSelector", name |-> n]
UnknownSelector == [type |-> "UnknownSelector", name |-> ""]

QualifiedRule(sel, ds) == [selector |-> sel, declarations |-> ds]

\* element.kind().to_string(): the tag name of an element kind.
ElementKindToString(k) ==
    CASE k = "Html" -> "html" [] k = "Head" -> "head" [] k = "Style" -> "style"
      [] k = "Script" -> "script" [] k = "Body" -> "body" [] k = "P" -> "p"
      [] k = "H1" -> "h1" [] k = "H2" -> "h2" [] k = "A" -> "a"
      [] OTHER -> ""

\* Element::get_attr: <<>> is None, <<value>> is Some(attr) with that value.
RECURSIVE get_attr(_, _)
get_attr(attributes, name) ==
    IF attributes = <<>> THEN <<>>
    ELSE IF Head(attributes).name = name THEN <<Head(attributes).value>>
    ELSE get_attr(Tail(attributes), name)

\* ComputedStyle::new: nothing is set yet.
Unset == "unset"

ComputedStyleNew == [background_color |-> Unset, color |-> Unset, display |-> Unset]

WHITE == "#ffffff"
BLACK == "#000000"

\* Color::from_name / Color::from_code: <<>> is Err, <<color>> is Ok(color).
ColorFromName(name) ==
    CASE name = "white" -> <<WHITE>>
      [] name = "black" -> <<BLACK>>
      [] name = "red" -> <<"#ff0000">>
      [] OTHER -> <<>>

ColorFromCode(code) ==
    IF code \in {WHITE, BLACK, "#ff0000", "#0000ff"} THEN <<code>> ELSE <<>>

\* DisplayType::try_from(&str)
DisplayTypeTryFrom(v) ==
    CASE v = "block" -> <<"Block">>
      [] v = "inline" -> <<"Inline">>
      [] v = "none" -> <<"None">>
      [] OTHER -> <<>>

UnwrapOr(opt, default) == IF opt = <<>> THEN default ELSE opt[1]

\* DisplayType's default for a node: display is never inherited.
DisplayTypeDefault(n) ==
    IF n.kind = "Element"
    THEN IF n.ekind \in {"Body", "H1", "H2", "P"} THEN "Block" ELSE "Inline"
    ELSE IF n.kind = "Text" THEN "Inline" ELSE "Block"

\* ComputedStyle::defauting: an unset colour is the parent's when there is a
\* parent box, the initial value otherwise; an unset display is the node's own.
defauting(style, n, parent_style) ==
    [background_color |->
        IF style.background_color # Unset THEN style.background_color
        ELSE IF parent_style # <<>> THEN parent_style[1].background_color ELSE WHITE,
     color |->
        IF style.color # Unset THEN style.color
        ELSE IF parent_style # <<>> THEN parent_style[1].color ELSE BLACK,
     display |->
        IF style.display # Unset THEN style.display ELSE DisplayTypeDefault(n)]

(***************************************************************************)
(* layout_object.rs                                                        *)
(***************************************************************************)
defaulting_style(style, n, parent_style) == defauting(style, n, parent_style)

\* LayoutObject::new; parent is the id of the parent box (0: Weak::new()).
LayoutObjectNew(node, parent) ==
    [kind |-> "Block", node |-> node, first_child |-> 0, next_sibling |-> 0,
     parent |-> parent, style |-> ComputedStyleNew,
     point |-> <<0, 0>>, size |-> <<0, 0>>]

is_node_selected(n, selector) ==
    IF n.kind = "Element"
    THEN CASE selector.type = "TypeSelector" ->
                 ElementKindToString(n.ekind) = selector.name
           [] selector.type = "ClassSelector" ->
                 LET attr == get_attr(n.attributes, "class") IN
                 attr # <<>> /\ attr[1] = selector.name
           [] selector.type = "IdSelector" ->
                 LET attr == get_attr(n.attributes, "id") IN
                 attr # <<>> /\ attr[1] = selector.name
           [] OTHER -> FALSE
    ELSE FALSE

\* CascadeDeclaration with an unknown display identifier falling back to Block.
CascadeDeclaration_block(style, declaration) ==
    CASE declaration.property = "background-color" ->
            IF declaration.value.type = "Ident"
            THEN [style EXCEPT !.background_color =
                      UnwrapOr(ColorFromName(declaration.value.v), WHITE)]
            ELSE IF declaration.value.type = "HashToken"
            THEN [style EXCEPT !.background_color =
                      UnwrapOr(ColorFromCode(declaration.value.v), WHITE)]
            ELSE style
      [] declaration.property = "color" ->
            IF declaration.value.type = "Ident"
            THEN [style EXCEPT !.color =
                      UnwrapOr(ColorFromName(declaration.value.v), BLACK)]
            ELSE IF declaration.value.type = "HashToken"
            THEN [style EXCEPT !.color =
                      UnwrapOr(ColorFromCode(declaration.value.v), BLACK)]
            ELSE style
      [] declaration.property = "display" ->
            IF declaration.value.type = "Ident"
            THEN [style EXCEPT !.display =
                      UnwrapOr(DisplayTypeTryFrom(declaration.value.v), "Block")]
            ELSE style
      [] OTHER -> style

\* The body of the `for declaration in declarations` loop of cascading_style.
CascadeDeclaration(style, declaration) ==
    CASE declaration.property = "background-color" ->
            IF declaration.value.type = "Ident"
            THEN [style EXCEPT !.background_color =
                      UnwrapOr(ColorFromName(declaration.value.v), WHITE)]
            ELSE IF declaration.value.type = "HashToken"
            THEN [style EXCEPT !.background_color =
                      UnwrapOr(ColorFromCode(declaration.value.v), WHITE)]
            ELSE style
      [] declaration.property = "color" ->
            IF declaration.value.type = "Ident"
            THEN [style EXCEPT !.color =
                      UnwrapOr(ColorFromName(declaration.value.v), BLACK)]
            ELSE IF declaration.value.type = "HashToken"
            THEN [style EXCEPT !.color =
                      UnwrapOr(ColorFromCode(declaration.value.v), BLACK)]
            ELSE style
      [] declaration.property = "display" ->
            IF declaration.value.type = "Ident"
            THEN [style EXCEPT !.display =
                      UnwrapOr(DisplayTypeTryFrom(declaration.value.v), "None")]
            ELSE style
      [] OTHER -> style

\* cascading_style where a property once set is not overwritten.
RECURSIVE cascading_style_first_wins(_, _)
cascading_style_first_wins(style, declarations) ==
    IF declarations = <<>> THEN style
    ELSE LET next == CascadeDeclaration(style, Head(declarations))
             kept == [f \in DOMAIN style |-> IF style[f] # Unset THEN style[f] ELSE next[f]]
         IN  cascading_style_first_wins(kept, Tail(declarations))

RECURSIVE cascading_style(_, _)
cascading_style(style, declarations) ==
    IF declarations = <<>> THEN style
    ELSE cascading_style(CascadeDeclaration(style, Head(declarations)), Tail(declarations))

\* create_layout_object, lines 38-44: for rule in &cssom.rules { ... }
RECURSIVE CascadeRules(_, _, _)
CascadeRules(style, n, rules) ==
    IF rules = <<>> THEN style
    ELSE CascadeRules(
             IF is_node_selected(n, Head(rules).selector)
             THEN cascading_style(style, Head(rules).declarations)
             ELSE style,
             n, Tail(rules))

\* update_kind with the Inline arm lost: the kind stays as LayoutObject::new set it.
update_kind_block_only(box) ==
    LET n == nodes[box.node] IN
    IF n.kind = "Document" THEN [status |-> "panic", box |-> box]
    ELSE IF n.kind = "Element"
    THEN IF box.style.display = "None"
         THEN [status |-> "panic", box |-> box]
         ELSE [status |-> "some", box |-> box]
    ELSE [status |-> "some", box |-> [box EXCEPT !.kind = "Text"]]

\* update_kind: panics for a Document node and for display:none.
update_kind(box) ==
    LET n == nodes[box.node] IN
    IF n.kind = "Document" THEN [status |-> "panic", box |-> box]
    ELSE IF n.kind = "Element"
    THEN IF box.style.display = "Block"
         THEN [status |-> "some", box |-> [box EXCEPT !.kind = "Block"]]
         ELSE IF box.style.display = "Inline"
         THEN [status |-> "some", box |-> [box EXCEPT !.kind = "Inline"]]
         ELSE [status |-> "panic", box |-> box]
    ELSE [status |-> "some", box |-> [box EXCEPT !.kind = "Text"]]

\* create_layout_object up to its line 50: the candidate with its style resolved.
Candidate(node, parent, bx) ==
    LET new_layout_object == LayoutObjectNew(node, parent)
        parent_style == IF parent = 0 THEN <<>> ELSE <<bx[parent].style>>
    IN  [new_layout_object EXCEPT !.style =
            defaulting_style(CascadeRules(@, nodes[node], cssom), nodes[node],
                             parent_style)]

\* create_layout_object with the display:none test lost.
create_layout_object_keep_none(node, parent, bx) ==
    IF node = 0 THEN [status |-> "none", box |-> LayoutObjectNew(0, 0)]
    ELSE LET c == Candidate(node, parent, bx) IN
         IF c.style.display = "None"
         THEN [status |-> "some", box |-> [c EXCEPT !.kind = "Unknown"]]
         ELSE update_kind(c)

\* status "none" is None, "some" is Some(box), "panic" a panic in update_kind.
create_layout_object(node, parent, bx) ==
    IF node = 0 THEN [status |-> "none", box |-> LayoutObjectNew(0, 0)]
    ELSE LET c == Candidate(node, parent, bx) IN
         IF c.style.display = "None" THEN [status |-> "none", box |-> c]
         ELSE update_kind(c)

(***************************************************************************)
(* layout_view.rs: build_layout_tree.  The result is the arena with the    *)
(* boxes built, the id of the box returned (0: None), and ok = FALSE when  *)
(* update_kind panicked.                                                   *)
(***************************************************************************)
\* Lines 28-38: the first of node and its following siblings that gets a box.
RECURSIVE SkipToLayout(_, _, _)
SkipToLayout(target_node, parent, bx) ==
    LET current_layout == create_layout_object(target_node, parent, bx) IN
    IF current_layout.status = "none" /\ target_node # 0
    THEN SkipToLayout(nodes[target_node].next_sibling, parent, bx)
    ELSE [status |-> current_layout.status, node |-> target_node,
          box |-> current_layout.box]

RECURSIVE build_layout_tree(_, _, _)
RECURSIVE CandidateLoop(_, _, _)

\* The test that ends the loops of lines 55-68 and 79-90.
CandidateNext(cand, parent, r) ==
    IF r.ok /\ r.id = 0 /\ cand # 0
    THEN CandidateLoop(nodes[cand].next_sibling, parent, r.boxes)
    ELSE r

\* Lines 55-68 and 79-90: try the following candidates until one gives a box.
CandidateLoop(cand, parent, bx) ==
    CandidateNext(cand, parent, build_layout_tree(cand, parent, bx))

\* Lines 92-101: set_first_child and set_next_sibling on the current box.
SetLinks(id, first_child_layout, next_sibling_layout, bx) ==
    IF ~next_sibling_layout.ok THEN [boxes |-> bx, id |-> 0, ok |-> FALSE]
    ELSE [boxes |-> [next_sibling_layout.boxes EXCEPT
                        ![id].first_child = first_child_layout.id,
                        ![id].next_sibling = next_sibling_layout.id],
          id |-> id, ok |-> TRUE]

\* Lines 72-90: the search for a next sibling when the first try gave none.
NextSiblingSearch(node, id, first_child_layout, next_sibling_layout, bx) ==
    SetLinks(id, first_child_layout,
             IF ~first_child_layout.ok
             THEN first_child_layout
             ELSE IF next_sibling_layout.id = 0 /\ nodes[node].next_sibling # 0
             THEN CandidateLoop(nodes[nodes[node].next_sibling].next_sibling, 0,
                                first_child_layout.boxes)
             ELSE [next_sibling_layout EXCEPT !.boxes = first_child_layout.boxes],
             bx)

\* Lines 48-68: the search for a first child when the first try gave none.
FirstChildSearch(node, id, first_child_layout, next_sibling_layout, bx) ==
    NextSiblingSearch(node, id,
        IF ~next_sibling_layout.ok
        THEN next_sibling_layout
        ELSE IF first_child_layout.id = 0 /\ nodes[node].first_child # 0
        THEN CandidateLoop(nodes[nodes[node].first_child].next_sibling, id,
                           next_sibling_layout.boxes)
        ELSE [first_child_layout EXCEPT !.boxes = next_sibling_layout.boxes],
        next_sibling_layout, bx)

\* Line 46: the first try for the next sibling, built with parent None.
NextSiblingLayout(node, id, first_child_layout, bx) ==
    FirstChildSearch(node, id, first_child_layout,
        IF ~first_child_layout.ok
        THEN first_child_layout
        ELSE build_layout_tree(nodes[node].next_sibling, 0, first_child_layout.boxes),
        bx)

\* Lines 40-45: the first try for the first child, built under the current box.
FirstChildLayout(s, id, bx) ==
    NextSiblingLayout(s.node, id,
        build_layout_tree(nodes[s.node].first_child, id, Append(bx, s.box)), bx)

build_layout_tree(node, parent, bx) ==
    IF SkipToLayout(node, parent, bx).status # "some"
    THEN [boxes |-> bx, id |-> 0, ok |-> SkipToLayout(node, parent, bx).status # "panic"]
    ELSE FirstChildLayout(SkipToLayout(node, parent, bx), Len(bx) + 1, bx)

(***************************************************************************)
(* constants.rs                                                            *)
(***************************************************************************)
WINDOW_WIDTH == 600
WINDOW_PADDING == 5
CONTENT_AREA_WIDTH == WINDOW_WIDTH - WINDOW_PADDING * 2
CHAR_WIDTH == 8
CHAR_HEIGHT == 16
CHAR_HEIGHT_WITH_PADDING == CHAR_HEIGHT + 4

(***************************************************************************)
(* layout_object.rs: compute_size and compute_position.  A LayoutSize is   *)
(* <<width, height>>, a LayoutPoint is <<x, y>>, an Option of either is    *)
(* <<>> or a one-element sequence.                                         *)
(***************************************************************************)
\* The tiers of FontSize.  The font size of a box is resolved by ComputedStyle,
\* whose source is not part of the repository: a Text box may carry any tier.
FontSizes == {"Medium", "XLarge", "XXLarge"}

\* Lines 148-152: the ratio of a font size.
FontRatio(font_size) ==
    CASE font_size = "Medium" -> 1
      [] font_size = "XLarge" -> 2
      [] font_size = "XXLarge" -> 3

\* The Block loop of compute_size counting the height of every child.
RECURSIVE BlockHeight_every_child(_, _, _)
BlockHeight_every_child(bx, child, prev_child_kind) ==
    IF child = 0 THEN 0
    ELSE bx[child].size[2]
         + BlockHeight_every_child(bx, bx[child].next_sibling, bx[child].kind)

\* Lines 110-124: the while loop of the Block arm, from child on.
RECURSIVE BlockHeight(_, _, _)
BlockHeight(bx, child, prev_child_kind) ==
    IF child = 0 THEN 0
    ELSE (IF prev_child_kind = "Block" \/ bx[child].kind = "Block"
          THEN bx[child].size[2] ELSE 0)
         + BlockHeight(bx, bx[child].next_sibling, bx[child].kind)

\* Lines 128-140: the while loop of the Inline arm; i = 1 sums the widths,
\* i = 2 the heights.
RECURSIVE InlineSum(_, _, _)
InlineSum(bx, child, i) ==
    IF child = 0 THEN 0
    ELSE bx[child].size[i] + InlineSum(bx, bx[child].next_sibling, i)

\* A character outside ASCII; its UTF-8 encoding has two bytes.
E_ACUTE == "U+00E9"

\* String::len(): the number of bytes of the UTF-8 encoding of the text.
StrLen(text) ==
    Len(text) + Cardinality({i \in 1..Len(text) : text[i] = E_ACUTE})

\* Lines 143-167: the Text arm for a text of len bytes and a font ratio.
TextSize(len, ratio) ==
    IF CHAR_WIDTH * ratio * len > CONTENT_AREA_WIDTH
    THEN <<CONTENT_AREA_WIDTH,
           CHAR_HEIGHT_WITH_PADDING * ratio
             * (IF (CHAR_WIDTH * ratio * len) % CONTENT_AREA_WIDTH = 0
                THEN (CHAR_WIDTH * ratio * len) \div CONTENT_AREA_WIDTH
                ELSE (CHAR_WIDTH * ratio * len) \div CONTENT_AREA_WIDTH + 1)>>
    ELSE <<CHAR_WIDTH * ratio * len, CHAR_HEIGHT_WITH_PADDING * ratio>>

\* LayoutObject::compute_size(parent_size) of box b: the new self.size.
compute_size(bx, b, parent_size) ==
    CASE bx[b].kind = "Block" ->
             <<parent_size[1], BlockHeight(bx, bx[b].first_child, "Block")>>
      [] bx[b].kind = "Inline" ->
             <<InlineSum(bx, bx[b].first_child, 1), InlineSum(bx, bx[b].first_child, 2)>>
      [] bx[b].kind = "Text" ->
             IF nodes[bx[b].node].kind # "Text" THEN bx[b].size
             ELSE TextSize(StrLen(nodes[bx[b].node].text), FontRatio(bx[b].style.font_size))
      [] OTHER -> <<0, 0>>

\* compute_position that never looks at the previous sibling.
compute_position_parent_point(bx, b, parent_point, prev_sibling_kind, prev_sibling_point, prev_sibling_size) ==
    parent_point

\* LayoutObject::compute_position of box b: the new self.point.
compute_position(bx, b, parent_point, prev_sibling_kind, prev_sibling_point, prev_sibling_size) ==
    IF bx[b].kind = "Block" \/ prev_sibling_kind = "Block"
    THEN <<parent_point[1],
           IF prev_sibling_size # <<>> /\ prev_sibling_point # <<>>
           THEN prev_sibling_point[1][2] + prev_sibling_size[1][2]
           ELSE parent_point[2]>>
    ELSE IF bx[b].kind = "Inline" /\ prev_sibling_kind = "Inline"
    THEN IF prev_sibling_size # <<>> /\ prev_sibling_point # <<>>
         THEN <<prev_sibling_point[1][1] + prev_sibling_size[1][1],
                prev_sibling_point[1][2]>>
         ELSE parent_point
    ELSE parent_point

(***************************************************************************)
(* layout_view.rs: the size pass, the position pass and update_layout.     *)
(***************************************************************************)
SetSize(bx, b, size) == [bx EXCEPT ![b].size = size]

SetPoint(bx, b, point) == [bx EXCEPT ![b].point = point]

RECURSIVE calculat_node_size(_, _, _)

\* Line 144: the node's size once its children and siblings have theirs.
SizeOfNode(bx, node, parent_size) ==
    SetSize(bx, node, compute_size(bx, node, parent_size))

\* Lines 139-140: the next sibling, with the same parent size.
SizeOfNextSibling(bx, node, parent_size) ==
    SizeOfNode(calculat_node_size(bx, bx[node].next_sibling, parent_size),
               node, parent_size)

\* Lines 136-137: the first child, with the node's size at this moment.
SizeOfFirstChild(bx, node, parent_size) ==
    SizeOfNextSibling(calculat_node_size(bx, bx[node].first_child, bx[node].size),
                      node, parent_size)

\* LayoutView::calculat_node_size(node, parent_size); node 0 is None.
calculat_node_size(bx, node, parent_size) ==
    IF node = 0 THEN bx
    ELSE SizeOfFirstChild(
             IF bx[node].kind = "Block"
             THEN SetSize(bx, node, compute_size(bx, node, parent_size))
             ELSE bx,
             node, parent_size)

RECURSIVE calculate_node_position(_, _, _, _, _, _)

\* Lines 174-180: the next sibling, after the node.
PositionOfNextSibling(bx, node, parent_point) ==
    calculate_node_position(bx, bx[node].next_sibling, parent_point,
                            bx[node].kind, <<bx[node].point>>, <<bx[node].size>>)

\* Lines 166-172: the first child, under the node's point.
PositionOfFirstChild(bx, node, parent_point, prev_sibling_kind) ==
    PositionOfNextSibling(
        calculate_node_position(bx, bx[node].first_child, bx[node].point,
                                prev_sibling_kind, <<>>, <<>>),
        node, parent_point)

\* LayoutView::calculate_node_position; node 0 is None.
calculate_node_position(bx, node, parent_point, prev_sibling_kind, prev_sibling_point, prev_sibling_size) ==
    IF node = 0 THEN bx
    ELSE PositionOfFirstChild(
             SetPoint(bx, node,
                      compute_position(bx, node, parent_point, prev_sibling_kind,
                                       prev_sibling_point, prev_sibling_size)),
             node, parent_point, prev_sibling_kind)

\* LayoutView::update_layout on the tree of boxes bx with the given root.
update_layout(bx, root) ==
    calculate_node_position(
        calculat_node_size(bx, root, <<CONTENT_AREA_WIDTH, 0>>),
        root, <<0, 0>>, "Block", <<>>, <<>>)

\* The Text boxes of bx, and bx with their styles' font sizes resolved.
TextBoxes(bx) == {b \in 1..Len(bx) : bx[b].kind = "Text"}

WithFonts(bx, fonts) ==
    [b \in 1..Len(bx) |->
        IF b \in DOMAIN fonts
        THEN [bx[b] EXCEPT !.style =
                 [background_color |-> bx[b].style.background_color,
                  color |-> bx[b].style.color,
                  display |-> bx[b].style.display,
                  font_size |-> fonts[b]]]
        ELSE bx[b]]

(***************************************************************************)
(* dom/api.rs                                                              *)
(***************************************************************************)
\* impl PartialEq for NodeKind: the body of eq is todo!(), which panics.
NodeKindEq(a, b) == [ok |-> FALSE, value |-> FALSE]

RECURSIVE get_target_element_node(_, _)
get_target_element_node(root, element_kind) ==
    IF root = 0 THEN [ok |-> TRUE, node |-> 0]
    ELSE LET eq == NodeKindEq(nodes[root],
                       NewNode("Element",
                               ElementKindFromStr(ElementKindToString(element_kind)).kind,
                               <<>>, <<>>))
         IN  IF ~eq.ok THEN [ok |-> FALSE, node |-> 0]
             ELSE IF eq.value THEN [ok |-> TRUE, node |-> root]
             ELSE LET result == get_target_element_node(nodes[root].first_child,
                                                        element_kind)
                  IN  IF ~result.ok \/ result.node # 0 THEN result
                      ELSE get_target_element_node(nodes[root].next_sibling,
                                                   element_kind)

NoLayout == [boxes |-> <<>>, root |-> 0]

\* LayoutView::new(root, cssom) on the Document of the Window.
LayoutViewNew ==
    /\ pc = "returned"
    /\ lpc = "idle"
    /\ LET body_root == get_target_element_node(Document, "Body")
           tree == build_layout_tree(body_root.node, 0, <<>>)
       IN  IF body_root.ok /\ tree.ok
           THEN /\ lpc' = "view"
                /\ \E fonts \in [TextBoxes(tree.boxes) -> FontSizes] :
                      layout' = [boxes |-> update_layout(WithFonts(tree.boxes, fonts),
                                                         tree.id),
                                 root |-> tree.id]
           ELSE /\ lpc' = "panic"
                /\ UNCHANGED layout
    /\ UNCHANGED <<cssom, candidate>>
    /\ UNCHANGED pvars
    /\ UNCHANGED <<cvars, uvars>>

\* BuildLayoutTree anchored at the first child of the Document instead of body.
BuildLayoutTree_from_html ==
    /\ pc = "returned"
    /\ lpc = "idle"
    /\ \E body \in {nodes[Document].first_child} \ {0} :
          LET tree == build_layout_tree(body, 0, <<>>) IN
          IF tree.ok
          THEN /\ lpc' = "built"
               /\ layout' = [boxes |-> tree.boxes, root |-> tree.id]
          ELSE /\ lpc' = "panic"
               /\ UNCHANGED layout
    /\ UNCHANGED <<cssom, candidate>>
    /\ UNCHANGED pvars
    /\ UNCHANGED <<cvars, uvars>>

\* build_layout_tree(&body_root, &None, cssom), for a body element of the DOM.
BuildLayoutTree ==
    /\ pc = "returned"
    /\ lpc = "idle"
    /\ \E body \in {i \in 1..Len(nodes) : ElementKindOf(nodes[i]) = "Body"} :
          LET tree == build_layout_tree(body, 0, <<>>) IN
          IF tree.ok
          THEN /\ lpc' = "built"
               /\ layout' = [boxes |-> tree.boxes, root |-> tree.id]
          ELSE /\ lpc' = "panic"
               /\ UNCHANGED layout
    /\ UNCHANGED <<cssom, candidate>>
    /\ UNCHANGED pvars
    /\ UNCHANGED <<cvars, uvars>>

\* tree.update_layout() on the tree built from body (LayoutView::new, line 120).
UpdateLayout ==
    /\ pc = "returned"
    /\ lpc = "built"
    /\ lpc' = "laid"
    /\ \E fonts \in [TextBoxes(layout.boxes) -> FontSizes] :
          layout' = [layout EXCEPT
                        !.boxes = update_layout(WithFonts(layout.boxes, fonts),
                                                layout.root)]
    /\ UNCHANGED <<cssom, candidate>>
    /\ UNCHANGED pvars
    /\ UNCHANGED <<cvars, uvars>>

\* create_layout_object(&Some(node), &None, cssom) for an element or text node.
\* candidate keeps the style after the rule loop and the style after defaulting.
CreateLayoutObject ==
    /\ pc = "returned"
    /\ \E node \in {i \in 1..Len(nodes) : nodes[i].kind # "Document"} :
          LET r == create_layout_object(node, 0, <<>>) IN
          /\ candidate' =
                <<[node |-> node, status |-> r.status,
                   cascaded |-> CascadeRules(ComputedStyleNew, nodes[node], cssom),
                   style |-> r.box.style]>>
          /\ candidate' # candidate
    /\ UNCHANGED <<cssom, layout, lpc>>
    /\ UNCHANGED pvars
    /\ UNCHANGED <<cvars, uvars>>

(***************************************************************************)
(* css/token.rs.  CssTokenizer { pos, input }: input is the sequence of    *)
(* characters, a position p is the index self.pos (input[p] of the code is *)
(* in[p + 1] here).  An index outside the input is a panic (ok = FALSE).   *)
(* The other token kinds of CssToken; Ident, HashToken and Number are      *)
(* above.                                                                  *)
(***************************************************************************)
Delim(c) == [type |-> "Delim", v |-> <<c>>]
Colon == [type |-> "Colon", v |-> <<>>]
SemiColon == [type |-> "SemiColon", v |-> <<>>]
OpenParenthesis == [type |-> "OpenParenthesis", v |-> <<>>]
CloseParenthesis == [type |-> "CloseParenthesis", v |-> <<>>]
OpenCurly == [type |-> "OpenCurly", v |-> <<>>]
CloseCurly == [type |-> "CloseCurly", v |-> <<>>]
StringToken(v) == [type |-> "StringToken", v |-> v]
AtKeyword(v) == [type |-> "AtKeyword", v |-> v]

DOUBLE_QUOTE == "\""
SINGLE_QUOTE == "'"

Digits == {"0", "1", "2", "3", "4", "5", "6", "7", "8", "9"}

to_digit(c) ==
    CASE c = "0" -> 0 [] c = "1" -> 1 [] c = "2" -> 2 [] c = "3" -> 3 [] c = "4" -> 4
      [] c = "5" -> 5 [] c = "6" -> 6 [] c = "7" -> 7 [] c = "8" -> 8 [] c = "9" -> 9

is_ascii_alphabetic(c) ==
    c \in {"a", "b", "c", "d", "e", "f", "g", "h", "i", "j", "k", "l", "m",
           "n", "o", "p", "q", "r", "s", "t", "u", "v", "w", "x", "y", "z",
           "A", "B", "C", "D", "E", "F", "G", "H", "I", "J", "K", "L", "M",
           "N", "O", "P", "Q", "R", "S", "T", "U", "V", "W", "X", "Y", "Z"}

\* 'a'..='z' | 'A'..='Z' | '0'..='9' | '-' | '_'
IsNameChar(c) == is_ascii_alphabetic(c) \/ c \in Digits \/ c \in {"-", "_"}

\* An f64 built from decimal digits: <<m, s>> stands for m / 10^s, with no
\* trailing zero behind the point, so that equal numbers are equal pairs.
RECURSIVE F64(_, _)
F64(m, s) == IF s > 0 /\ m % 10 = 0 THEN F64(m \div 10, s - 1) ELSE <<m, s>>

\* consume_string_token: the loop, entered with self.pos = p and s.
RECURSIVE consume_string_token(_, _, _)
consume_string_token(in, p, s) ==
    IF p >= Len(in) THEN [ok |-> TRUE, pos |-> p, v |-> s]
    ELSE IF p + 1 >= Len(in) THEN [ok |-> FALSE, pos |-> p + 1, v |-> s]
    ELSE IF in[p + 2] \in {DOUBLE_QUOTE, SINGLE_QUOTE}
         THEN [ok |-> TRUE, pos |-> p + 1, v |-> s]
    ELSE consume_string_token(in, p + 1, Append(s, in[p + 2]))

\* consume_numeric_token: the loop, with num = m / 10^s and the flag floating.
RECURSIVE consume_numeric_token(_, _, _, _, _)
consume_numeric_token(in, p, m, s, floating) ==
    IF p >= Len(in) THEN [ok |-> TRUE, pos |-> p, v |-> F64(m, s)]
    ELSE IF in[p + 1] \in Digits
         THEN consume_numeric_token(in, p + 1, m * 10 + to_digit(in[p + 1]),
                                    IF floating THEN s + 1 ELSE 0, floating)
    ELSE IF in[p + 1] = "."
         THEN consume_numeric_token(in, p + 1, m, s, TRUE)
    ELSE [ok |-> TRUE, pos |-> p, v |-> F64(m, s)]

\* The loop of consume_indent_token, entered with self.pos = p and s.
RECURSIVE ConsumeIndentLoop(_, _, _)
ConsumeIndentLoop(in, p, s) ==
    IF p + 1 >= Len(in) THEN [ok |-> FALSE, pos |-> p + 1, v |-> s]
    ELSE IF IsNameChar(in[p + 2])
         THEN ConsumeIndentLoop(in, p + 1, Append(s, in[p + 2]))
    ELSE [ok |-> TRUE, pos |-> p + 1, v |-> s]

consume_indent_token(in, p) == ConsumeIndentLoop(in, p, <<in[p + 1]>>)

\* What next returns: None, Some(token) with the new self.pos, or a panic.
CssNone(p) == [ok |-> TRUE, some |-> FALSE, token |-> Colon, pos |-> p]
CssSome(t, p) == [ok |-> TRUE, some |-> TRUE, token |-> t, pos |-> p]
CssPanic(p) == [ok |-> FALSE, some |-> FALSE, token |-> Colon, pos |-> p]

\* `let t = ...(consume(..)); self.pos -= 1; t` followed by `self.pos += 1`.
CssConsumed(r, t) == IF r.ok THEN CssSome(t, (r.pos - 1) + 1) ELSE CssPanic(r.pos)

\* The '@' arm: the three characters behind it are read one after the other.
AtArm(in, p) ==
    IF p + 1 >= Len(in) THEN CssPanic(p)
    ELSE IF ~is_ascii_alphabetic(in[p + 2]) THEN CssSome(Delim("@"), p + 1)
    ELSE IF p + 2 >= Len(in) THEN CssPanic(p)
    ELSE IF ~is_ascii_alphabetic(in[p + 3]) THEN CssSome(Delim("@"), p + 1)
    ELSE IF p + 3 >= Len(in) THEN CssPanic(p)
    ELSE IF ~is_ascii_alphabetic(in[p + 4]) THEN CssSome(Delim("@"), p + 1)
    ELSE CssConsumed(consume_indent_token(in, p + 1),
                     AtKeyword(consume_indent_token(in, p + 1).v))

\* `let token = match c { ... }; self.pos += 1; return Some(token);` for the
\* character c at p, which is not a space and not a newline.
CssMatch(in, p, c) ==
    CASE c = "(" -> CssSome(OpenParenthesis, p + 1)
      [] c = ")" -> CssSome(CloseParenthesis, p + 1)
      [] c = "," -> CssSome(Delim(","), p + 1)
      [] c = "." -> CssSome(Delim("."), p + 1)
      [] c = ":" -> CssSome(Colon, p + 1)
      [] c = ";" -> CssSome(SemiColon, p + 1)
      [] c = "{" -> CssSome(OpenCurly, p + 1)
      [] c = "}" -> CssSome(CloseCurly, p + 1)
      [] c \in {DOUBLE_QUOTE, SINGLE_QUOTE} ->
            IF consume_string_token(in, p, <<>>).ok
            THEN CssSome(StringToken(consume_string_token(in, p, <<>>).v),
                         consume_string_token(in, p, <<>>).pos + 1)
            ELSE CssPanic(p)
      [] c \in Digits ->
            CssConsumed(consume_numeric_token(in, p, 0, 0, FALSE),
                        Number(consume_numeric_token(in, p, 0, 0, FALSE).v))
      [] c = "#" ->
            CssConsumed(consume_indent_token(in, p),
                        HashToken(consume_indent_token(in, p).v))
      [] c = "-" ->
            CssConsumed(consume_indent_token(in, p),
                        Ident(consume_indent_token(in, p).v))
      [] c = "@" -> AtArm(in, p)
      [] is_ascii_alphabetic(c) \/ c = "_" ->
            CssConsumed(consume_indent_token(in, p),
                        Ident(consume_indent_token(in, p).v))
      [] OTHER -> CssPanic(p)

\* <CssTokenizer as Iterator>::next with self.pos = p.
RECURSIVE CssTokenizerNext(_, _)
CssTokenizerNext(in, p) ==
    IF p >= Len(in) THEN CssNone(p)
    ELSE IF in[p + 1] \in {SPACE, LINE_FEED} THEN CssTokenizerNext(in, p + 1)
    ELSE CssMatch(in, p, in[p + 1])

\* The tokens of a whole text, as the consumer of the iterator collects them
\* until None; ok is FALSE when a call panicked.
RECURSIVE CssCollect(_, _, _)
CssCollect(in, p, out) ==
    IF ~CssTokenizerNext(in, p).ok THEN [ok |-> FALSE, tokens |-> out]
    ELSE IF ~CssTokenizerNext(in, p).some THEN [ok |-> TRUE, tokens |-> out]
    ELSE CssCollect(in, CssTokenizerNext(in, p).pos,
                    Append(out, CssTokenizerNext(in, p).token))

\* One call of next on the tokenizer.  cpc: "run" while tokens are being
\* taken, "done" once None was returned, "panic".
CssTokenizer_next ==
    /\ cpc = "run"
    /\ LET r == CssTokenizerNext(input, css_pos) IN
       IF ~r.ok
       THEN /\ cpc' = "panic"
            /\ UNCHANGED <<css_pos, css_tokens>>
       ELSE /\ css_pos' = r.pos
            /\ css_tokens' = IF r.some THEN Append(css_tokens, r.token) ELSE css_tokens
            /\ cpc' = IF r.some THEN "run" ELSE "done"
    /\ UNCHANGED input
    /\ UNCHANGED <<pvars, lvars, uvars>>

\* The tokenizer is not in use.
CssIdle ==
    /\ input = <<>>
    /\ css_pos = 0
    /\ css_tokens = <<>>
    /\ cpc = "idle"

(***************************************************************************)
(* page.rs, browser.rs and ui/wasabi/src/app.rs.  The browser has one page *)
(* (Browser::new), page holds its four fields: 0 is None / an empty list,  *)
(* k > 0 is the value made from the k-th response.  nodes is the document  *)
(* construct_tree builds from the body of a response.                      *)
(***************************************************************************)
MaxUrl == 3

UrlChars == {"a", "/"}

\* Page::new
PageNew == [frame |-> 0, style |-> 0, layout_view |-> 0, display_items |-> 0]

PageResult(ok, p) == [ok |-> ok, page |-> p]

\* get_style_content(dom): get_target_element_node(Some(root), Style).
get_style_content == get_target_element_node(Document, "Style")

\* Page::create_frame for response r, once construct_tree has returned.
create_frame(p, r) ==
    IF ~get_style_content.ok THEN PageResult(FALSE, p)
    ELSE PageResult(TRUE, [p EXCEPT !.frame = r, !.style = r])

\* LayoutView::new(dom, &style), as in LayoutViewNew.
LayoutViewNewOk ==
    /\ get_target_element_node(Document, "Body").ok
    /\ build_layout_tree(get_target_element_node(Document, "Body").node, 0, <<>>).ok

\* Page::set_layout_view
set_layout_view(p) ==
    IF p.frame = 0 \/ p.style = 0 THEN PageResult(TRUE, p)
    ELSE IF ~LayoutViewNewOk THEN PageResult(FALSE, p)
    ELSE PageResult(TRUE, [p EXCEPT !.layout_view = p.frame])

\* LayoutView::paint: the body is todo!(), which panics.
paint == [ok |-> FALSE]

\* Page::paint_tree
paint_tree(p) ==
    IF p.layout_view = 0 THEN PageResult(TRUE, p)
    ELSE IF ~paint.ok THEN PageResult(FALSE, p)
    ELSE PageResult(TRUE, [p EXCEPT !.display_items = p.layout_view])

\* Page::receive_response for response r: the three calls in order; a panic
\* leaves the fields as the calls before it assigned them.
receive_response(p, r) ==
    IF ~create_frame(p, r).ok THEN create_frame(p, r)
    ELSE IF ~set_layout_view(create_frame(p, r).page).ok
         THEN set_layout_view(create_frame(p, r).page)
    ELSE paint_tree(set_layout_view(create_frame(p, r).page).page)

\* What construct_tree does with a response body: it returns the Window,
\* fails an assertion or repeats an iteration for ever.
ConstructTreeOutcomes == {"returned", "panic", "hang"}

\* What handle_url gives for a destination.
HandleUrlResults == {"Ok", "Err"}

\* Page::get_link_at: None without a layout view; with one, the href of the
\* <a> found at the position, if any.
get_link_at ==
    IF page.layout_view = 0 THEN {<<>>}
    ELSE {<<>>} \cup {<<u>> : u \in {<<"a">>}}

\* WasabiUI::start_navigation(handle_url, destination) with the result of
\* handle_url and the outcome of construct_tree; after is the value of
\* (input_url, input_mode) the caller leaves when the call returns Ok.
\* clear_content_area comes first; an Err leaves by `?` through the handler,
\* run_app and start, and main prints "browser fails to start".
\* start_navigation that hands a response to the page whatever handle_url gave.
start_navigation_always_receives(result, outcome, after_url, after_mode) ==
    /\ clears' = clears + 1
    /\ responses' = responses + 1
    /\ page' = [page EXCEPT !.frame = responses + 1, !.style = responses + 1]
    /\ ui_pc' = IF result = "Err" THEN "failed" ELSE "panic"
    /\ content_area' = <<>>
    /\ input_url' = input_url
    /\ input_mode' = input_mode

start_navigation(result, outcome, after_url, after_mode) ==
    /\ clears' = clears + 1
    /\ IF result = "Err"
       THEN /\ ui_pc' = "failed"
            /\ content_area' = <<>>
            /\ UNCHANGED <<page, responses>>
            /\ input_url' = input_url
            /\ input_mode' = input_mode
       ELSE /\ responses' = responses + 1
            /\ IF outcome # "returned"
               THEN /\ ui_pc' = outcome
                    /\ content_area' = <<>>
                    /\ UNCHANGED page
                    /\ input_url' = input_url
                    /\ input_mode' = input_mode
               ELSE /\ page' = receive_response(page, responses + 1).page
                    /\ IF receive_response(page, responses + 1).ok
                       THEN /\ ui_pc' = "run"
                            /\ content_area' =
                                   IF page'.display_items = 0 THEN <<>>
                                   ELSE <<page'.display_items>>
                            /\ input_url' = after_url
                            /\ input_mode' = after_mode
                       ELSE /\ ui_pc' = "panic"
                            /\ content_area' = <<>>
                            /\ input_url' = input_url
                            /\ input_mode' = input_mode

\* handle_mouse_input, a click in the toolbar: clear_address_bar, start_editing.
ClickToolbar ==
    /\ ui_pc = "run"
    /\ input_url' = <<>>
    /\ input_mode' = "Editing"
    /\ address_bar' = <<>>
    /\ UNCHANGED <<page, responses, content_area, clears, ui_pc>>
    /\ UNCHANGED <<pvars, lvars, cvars>>

\* handle_mouse_input, a click in the window outside the toolbar: end_editing,
\* then a navigation when get_link_at finds a link.
ClickContent ==
    /\ ui_pc = "run"
    /\ \E link \in get_link_at :
          IF link = <<>>
          THEN /\ input_mode' = "Normal"
               /\ UNCHANGED <<input_url, address_bar, page, responses, content_area,
                              clears, ui_pc>>
          ELSE /\ address_bar' = link[1]
               /\ \E result \in HandleUrlResults, outcome \in ConstructTreeOutcomes :
                     start_navigation(result, outcome, link[1], "Normal")
    /\ UNCHANGED <<pvars, lvars, cvars>>

\* handle_key_input in Editing, a key other than ENTER, DELETE and BACKSPACE.
KeyChar ==
    /\ ui_pc = "run"
    /\ input_mode = "Editing"
    /\ Len(input_url) < MaxUrl
    /\ \E c \in UrlChars : input_url' = Append(input_url, c)
    /\ address_bar' = input_url'
    /\ UNCHANGED <<input_mode, page, responses, content_area, clears, ui_pc>>
    /\ UNCHANGED <<pvars, lvars, cvars>>

\* handle_key_input in Editing, DELETE or BACKSPACE: String::pop.
KeyDelete ==
    /\ ui_pc = "run"
    /\ input_mode = "Editing"
    /\ input_url' = IF input_url = <<>> THEN <<>> ELSE Front(input_url)
    /\ address_bar' = input_url'
    /\ UNCHANGED <<input_mode, page, responses, content_area, clears, ui_pc>>
    /\ UNCHANGED <<pvars, lvars, cvars>>

\* handle_key_input in Editing, ENTER.
KeyEnter ==
    /\ ui_pc = "run"
    /\ input_mode = "Editing"
    /\ \E result \in HandleUrlResults, outcome \in ConstructTreeOutcomes :
          start_navigation(result, outcome, <<>>, "Normal")
    /\ UNCHANGED address_bar
    /\ UNCHANGED <<pvars, lvars, cvars>>

\* The user interface is not in use.
UiIdle ==
    /\ input_url = <<>>
    /\ input_mode = "Normal"
    /\ address_bar = <<>>
    /\ page = PageNew
    /\ responses = 0
    /\ content_area = <<>>
    /\ clears = 0
    /\ ui_pc = "idle"

(***************************************************************************)
(* The documents and style sheets the layout code is run on.               *)
(***************************************************************************)
MaxExtra == 3

MaxDecls == 2

DomInsert(ns, parent, new_node) ==
    insert_node([nodes |-> ns, stack |-> <<>>], parent, new_node).nodes

\* Document > html > (head, body)
Skeleton ==
    LET html == DomInsert(WindowNew, Document, NewNode("Element", "Html", <<>>, <<>>))
        head == DomInsert(html, 2, NewNode("Element", "Head", <<>>, <<>>))
    IN  DomInsert(head, 2, NewNode("Element", "Body", <<>>, <<>>))

ExtraNodes ==
    { NewNode("Element", "P", <<>>, <<>>),
      NewNode("Element", "P", <<Attr("class", "hidden")>>, <<>>),
      NewNode("Element", "A", <<>>, <<>>),
      NewNode("Text", "", <<>>, <<"a">>) }

\* Nodes a further node may be appended to: html, body and the added elements.
ParentsIn(ns) == {i \in 1..Len(ns) : ns[i].kind = "Element" /\ ns[i].ekind # "Head"}

RECURSIVE DomsWith(_)
DomsWith(k) ==
    IF k = 0 THEN {Skeleton}
    ELSE UNION { { DomInsert(ns, p, n) : p \in ParentsIn(ns), n \in ExtraNodes }
                 : ns \in DomsWith(k - 1) }

Doms == UNION { DomsWith(k) : k \in 0..MaxExtra }

LayoutSheets ==
    { <<>>,
      << QualifiedRule(ClassSelector("hidden"), <<Declaration("display", Ident("none"))>>) >>,
      << QualifiedRule(TypeSelector("body"), <<Declaration("display", Ident("none"))>>) >>,
      << QualifiedRule(TypeSelector("p"), <<Declaration("display", Ident("inline"))>>),
         QualifiedRule(ClassSelector("hidden"), <<Declaration("display", Ident("none"))>>) >>,
      << QualifiedRule(TypeSelector("p"), <<Declaration("display", Ident("flex"))>>) >>,
      << QualifiedRule(TypeSelector("a"), <<Declaration("display", Ident("block")),
                                            Declaration("color", Ident("red"))>>) >> }

\* The parser after construct_tree returned, with no layout work done yet.
Returned ==
    /\ mode = "AfterAfterBody"
    /\ original_insertion_mode = "Initial"
    /\ stack_of_open_elements = <<>>
    /\ token = NoneTok
    /\ pos = 0
    /\ pc = "returned"
    /\ run = NoRun
    /\ text_entry = <<>>
    /\ layout = NoLayout
    /\ candidate = <<>>
    /\ lpc = "idle"

\* Document > html > (head > (style > text, script), body), and the same with
\* one more node under html or body.
StyledSkeleton ==
    LET html == DomInsert(WindowNew, Document, NewNode("Element", "Html", <<>>, <<>>))
        head == DomInsert(html, 2, NewNode("Element", "Head", <<>>, <<>>))
        style == DomInsert(head, 3, NewNode("Element", "Style", <<>>, <<>>))
        text == DomInsert(style, 4, NewNode("Text", "", <<>>, <<"a">>))
        script == DomInsert(text, 3, NewNode("Element", "Script", <<>>, <<>>))
    IN  DomInsert(script, 2, NewNode("Element", "Body", <<>>, <<>>))

StyledDoms ==
    {StyledSkeleton} \cup {DomInsert(StyledSkeleton, p, n) : p \in {2, 7}, n \in ExtraNodes}

\* body with one Text child: texts that wrap at the largest font only, at
\* every font, onto full lines exactly, and a text with a two-byte character.
TextLengths == {25, 74, 295}

TextDoms ==
    {DomInsert(Skeleton, 4, NewNode("Text", "", <<>>, [i \in 1..n |-> "a"])) :
        n \in TextLengths}
    \cup {DomInsert(Skeleton, 4, NewNode("Text", "", <<>>, <<E_ACUTE>>)),
          DomInsert(Skeleton, 4, NewNode("Text", "", <<>>, <<"a", E_ACUTE>>))}

\* body > (a > text, a > (text, p > text)): a Block in the second of two
\* Inline boxes on one line.
InlineDoms ==
    LET a1 == DomInsert(Skeleton, 4, NewNode("Element", "A", <<>>, <<>>))
        t1 == DomInsert(a1, 5, NewNode("Text", "", <<>>, <<"a">>))
        a2 == DomInsert(t1, 4, NewNode("Element", "A", <<>>, <<>>))
        t2 == DomInsert(a2, 7, NewNode("Text", "", <<>>, <<"a">>))
        p == DomInsert(t2, 7, NewNode("Element", "P", <<>>, <<>>))
    IN  {p, DomInsert(p, 9, NewNode("Text", "", <<>>, <<"a">>))}

LayoutInit ==
    /\ Returned
    /\ CssIdle
    /\ UiIdle
    /\ nodes \in Doms \cup StyledDoms \cup TextDoms \cup InlineDoms
    /\ cssom \in LayoutSheets

LayoutNext ==
    \/ BuildLayoutTree
    \/ UpdateLayout
    \/ LayoutViewNew

LayoutSpec == LayoutInit /\ [][LayoutNext]_vars

SelectorAtoms == {TypeSelector("p"), ClassSelector("hidden"), IdSelector("z")}

DeclarationAtoms ==
    { Declaration("display", Ident("block")),
      Declaration("display", Ident("none")),
      Declaration("display", Ident("flex")),
      Declaration("display", Number("1")),
      Declaration("color", Ident("red")),
      Declaration("color", HashToken("#0000ff")),
      Declaration("background-color", Ident("red")) }

\* Style sheets with exactly k declarations, in rules of at least one each.
RECURSIVE SheetsWith(_)
SheetsWith(k) ==
    IF k = 0 THEN {<<>>}
    ELSE UNION { { <<QualifiedRule(sel, ds)>> \o rest :
                       sel \in SelectorAtoms,
                       ds \in [1..j -> DeclarationAtoms],
                       rest \in SheetsWith(k - j) }
                 : j \in 1..k }

Sheets == UNION { SheetsWith(k) : k \in 0..MaxDecls }

\* Document > html > (head, body > (p.hidden, a, text))
CascadeDom ==
    LET p == DomInsert(Skeleton, 4,
                 NewNode("Element", "P", <<Attr("class", "hidden")>>, <<>>))
        a == DomInsert(p, 4, NewNode("Element", "A", <<>>, <<>>))
    IN  DomInsert(a, 4, NewNode("Text", "", <<>>, <<"a">>))

CascadeInit ==
    /\ Returned
    /\ CssIdle
    /\ UiIdle
    /\ nodes = CascadeDom
    /\ cssom \in Sheets

CascadeNext == CreateLayoutObject

CascadeSpec == CascadeInit /\ [][CascadeNext]_vars

(***************************************************************************)
(* The style texts the tokenizer is run on.                                *)
(***************************************************************************)
MaxCss == 4

CssChars ==
    {"a", "1", ";", "{", DOUBLE_QUOTE, SINGLE_QUOTE, SPACE, LINE_FEED, "@", "#", ".", "-"}

CssInputs == UNION { [1..n -> CssChars] : n \in 0..MaxCss }

\* CssTokenizer::new(css)
CssInit ==
    /\ Returned
    /\ nodes = WindowNew
    /\ cssom = <<>>
    /\ UiIdle
    /\ input \in CssInputs
    /\ css_pos = 0
    /\ css_tokens = <<>>
    /\ cpc = "run"

CssNext == CssTokenizer_next

CssSpec == CssInit /\ [][CssNext]_vars

(***************************************************************************)
(* The user interface on a browser whose server answers with a body that   *)
(* construct_tree turns into one of these documents.                       *)
(***************************************************************************)
ResponseDocuments == {WindowNew, Skeleton, CascadeDom}

\* Browser::new, WasabiUI::new and setup, at the head of the loop of run_app.
UiInit ==
    /\ Returned
    /\ nodes \in ResponseDocuments
    /\ cssom = <<>>
    /\ CssIdle
    /\ input_url = <<>>
    /\ input_mode = "Normal"
    /\ address_bar = <<>>
    /\ page = PageNew
    /\ responses = 0
    /\ content_area = <<>>
    /\ clears = 0
    /\ ui_pc = "run"

UiNext ==
    \/ ClickToolbar
    \/ ClickContent
    \/ KeyChar
    \/ KeyDelete
    \/ KeyEnter

UiSpec == UiInit /\ [][UiNext]_vars

\* HtmlParser::new; no style sheet and no layout yet.
Init ==
    /\ mode = "Initial"
    /\ original_insertion_mode = "Initial"
    /\ stack_of_open_elements = <<>>
    /\ nodes = WindowNew
    /\ token = NoneTok
    /\ pos = 0
    /\ pc = "start"
    /\ run = NoRun
    /\ text_entry = <<>>
    /\ cssom = <<>>
    /\ layout = NoLayout
    /\ candidate = <<>>
    /\ lpc = "idle"
    /\ CssIdle
    /\ UiIdle

Next ==
    \/ Start
    \/ LoopExit
    \/ Initial
    \/ BeforeHtml
    \/ BeforeHead
    \/ InHead
    \/ AfterHead
    \/ InBody
    \/ Text
    \/ AfterBody
    \/ AfterAfterBody
    \/ LayoutViewNew

Spec == Init /\ [][Next]_vars

TypeOK ==
    /\ mode \in InsertionMode
    /\ original_insertion_mode \in InsertionMode
    /\ pc \in {"start", "loop", "returned", "panic", "hang"}
    /\ token \in HtmlToken \cup {NoneTok}
    /\ \A i \in 1..Len(stack_of_open_elements) :
          stack_of_open_elements[i] \in 2..Len(nodes)

(***************************************************************************)
(* C1.  For every finite token sequence construct_tree terminates and      *)
(* returns the Window: no run ends in an iteration that repeats for ever   *)
(* (pc = "hang") or in a failed assertion (pc = "panic").                  *)
(***************************************************************************)
C1_ConstructTreeReturns == pc \notin {"hang", "panic"}

(***************************************************************************)
(* C3.  Whenever a step inserts an element, the new node is the last child *)
(* of the node that was on top of the open-element stack (of the Document  *)
(* when the stack was empty), its parent is that node, the children that   *)
(* node already had keep their order in front of it, it is pushed on the   *)
(* stack, and its attributes are those of the start tag it was inserted    *)
(* for (none for a synthesized head / body, which consumes no token).      *)
(***************************************************************************)
InsertedElement ==
    /\ Len(nodes') = Len(nodes) + 1
    /\ nodes'[Len(nodes')].kind = "Element"

C3_Step ==
    InsertedElement =>
        LET new == Len(nodes')
            parent == IF stack_of_open_elements = <<>> THEN Document
                      ELSE Last(stack_of_open_elements)
        IN  /\ nodes'[new].parent = parent
            /\ nodes'[parent].last_child = new
            /\ Children(nodes', parent) = Append(Children(nodes, parent), new)
            /\ stack_of_open_elements' = Append(stack_of_open_elements, new)
            /\ nodes'[new].attributes =
                   IF pos' = pos + 1 THEN token.attributes ELSE <<>>
            /\ pos' = pos + 1 =>
                   /\ token.type = "StartTag"
                   /\ ElementKindFromStr(token.tag).kind = nodes'[new].ekind

C3_InsertElement == [][C3_Step]_vars

\* An element with attributes was inserted behind an earlier child of its
\* parent and is on top of the stack.
C3_Witness ==
    \E n \in 2..Len(nodes) :
        /\ nodes[n].kind = "Element"
        /\ nodes[n].attributes # <<>>
        /\ nodes[n].parent # Document
        /\ Len(Children(nodes, nodes[n].parent)) >= 2
        /\ Last(Children(nodes, nodes[n].parent)) = n
        /\ stack_of_open_elements # <<>>
        /\ Last(stack_of_open_elements) = n

(***************************************************************************)
(* C4.  In InBody a maximal run of consecutive character tokens creates at *)
(* most one Text node; the node it creates holds the run without its       *)
(* leading spaces / newlines (later ones kept, in token order) and is the  *)
(* last child of the element that was on top of the stack when the run     *)
(* began; a run of spaces / newlines only creates no node.                 *)
(***************************************************************************)
C4_CharRun ==
    run.chars # <<>> =>
        LET created == Len(nodes) - run.base IN
        /\ created \in {0, 1}
        /\ created = 1 =>
              /\ nodes[Len(nodes)].kind = "Text"
              /\ nodes[Len(nodes)].text = StripLeading(run.chars)
              /\ run.top # 0
              /\ nodes[run.top].kind = "Element"
              /\ nodes[Len(nodes)].parent = run.top
              /\ Last(Children(nodes, run.top)) = Len(nodes)
        /\ (\A i \in 1..Len(run.chars) : IsSpace(run.chars[i])) => created = 0

\* A run " a\nb" has created the Text node "a\nb".
C4_Witness ==
    /\ run.chars = <<SPACE, "a", LINE_FEED, "b">>
    /\ Len(nodes) = run.base + 1
    /\ nodes[Len(nodes)].text = <<"a", LINE_FEED, "b">>

(***************************************************************************)
(* C5.  In InBody a start tag p, h1, h2 or a adds exactly one element node *)
(* of that kind and consumes the token; any other start tag consumes the   *)
(* token and leaves the DOM, the open-element stack and the mode unchanged.*)
(***************************************************************************)
KindOfTag(t) ==
    CASE t = "p" -> "P" [] t = "h1" -> "H1" [] t = "h2" -> "H2" [] t = "a" -> "A"
      [] OTHER -> ""

C5_Step ==
    (pc = "loop" /\ mode = "InBody" /\ token.type = "StartTag") =>
        IF token.tag \in {"p", "h1", "h2", "a"}
        THEN /\ Len(nodes') = Len(nodes) + 1
             /\ nodes'[Len(nodes')].kind = "Element"
             /\ nodes'[Len(nodes')].ekind = KindOfTag(token.tag)
             /\ pos' = pos + 1
        ELSE /\ pos' = pos + 1
             /\ UNCHANGED <<nodes, stack_of_open_elements, mode>>

C5_InBodyStartTag == [][C5_Step]_vars

(***************************************************************************)
(* Reading the layout tree.                                                *)
(***************************************************************************)
\* The body element of the document (0 when there is none).
Body ==
    IF \E i \in 1..Len(nodes) : ElementKindOf(nodes[i]) = "Body"
    THEN CHOOSE i \in 1..Len(nodes) : ElementKindOf(nodes[i]) = "Body"
    ELSE 0

\* The display a node resolves to; display is never taken from the parent box.
ResolvedDisplay(n) == Candidate(n, 0, <<>>).style.display

RECURSIVE InSubtree(_, _)
InSubtree(n, root) ==
    n # 0 /\ (n = root \/ InSubtree(nodes[n].parent, root))

\* n and all its ancestors up to root are not display:none (n is under root).
RECURSIVE VisibleIn(_, _)
VisibleIn(n, root) ==
    /\ ResolvedDisplay(n) # "None"
    /\ n = root \/ VisibleIn(nodes[n].parent, root)

RECURSIVE Reach(_)
Reach(b) ==
    IF b = 0 THEN {}
    ELSE {b} \cup Reach(layout.boxes[b].first_child)
             \cup Reach(layout.boxes[b].next_sibling)

\* The boxes of the tree under LayoutView.root.
TreeBoxes == Reach(layout.root)

BoxesOf(n) == {b \in TreeBoxes : layout.boxes[b].node = n}

FollowingSiblings(n) == Chain(nodes, nodes[n].next_sibling, Len(nodes))

\* The first node of ns that is not display:none, 0 when there is none.
FirstVisible(ns) ==
    IF \E i \in 1..Len(ns) : ResolvedDisplay(ns[i]) # "None"
    THEN ns[CHOOSE i \in 1..Len(ns) :
                /\ ResolvedDisplay(ns[i]) # "None"
                /\ \A j \in 1..(i - 1) : ResolvedDisplay(ns[j]) = "None"]
    ELSE 0

\* The box link b (0: None) is the box of node n (0: no node).
LinkIs(b, n) == IF n = 0 THEN b = 0 ELSE b # 0 /\ layout.boxes[b].node = n

(***************************************************************************)
(* C2.  In the box tree built from body, every node of body's subtree that *)
(* is visible (neither it nor an ancestor inside the subtree resolves to   *)
(* display:none) has exactly one box and every other node of the subtree   *)
(* has none; the first child of a box is the box of the first visible      *)
(* child of its node and its next sibling the box of the first visible     *)
(* following sibling of its node.                                          *)
(***************************************************************************)
C2_BoxPerVisibleNode ==
    lpc = "built" =>
        /\ \A n \in 1..Len(nodes) :
              InSubtree(n, Body) =>
                  Cardinality(BoxesOf(n)) = IF VisibleIn(n, Body) THEN 1 ELSE 0
        /\ \A b \in TreeBoxes :
              InSubtree(layout.boxes[b].node, Body) =>
                  /\ LinkIs(layout.boxes[b].first_child,
                            FirstVisible(Children(nodes, layout.boxes[b].node)))
                  /\ LinkIs(layout.boxes[b].next_sibling,
                            FirstVisible(FollowingSiblings(layout.boxes[b].node)))

\* A tree was built in which a box's next sibling is not the box of its node's
\* next sibling, because that one is hidden, and a first child was skipped too.
C2_Witness ==
    /\ lpc = "built"
    /\ \E b \in TreeBoxes :
          LET n == layout.boxes[b].node
              h == nodes[n].next_sibling
          IN  /\ InSubtree(n, Body)
              /\ n # Body
              /\ h # 0
              /\ ResolvedDisplay(h) = "None"
              /\ layout.boxes[b].next_sibling # 0
              /\ layout.boxes[layout.boxes[b].next_sibling].node = nodes[h].next_sibling

(***************************************************************************)
(* C6.  If body resolves to display:none, building the layout gives root   *)
(* none and no box at all, whatever else the DOM contains.                 *)
(***************************************************************************)
C6_HiddenBodyNoLayout ==
    (Body # 0 /\ ResolvedDisplay(Body) = "None" /\ lpc # "idle") =>
        /\ lpc \in {"built", "view"}
        /\ layout.root = 0
        /\ layout.boxes = <<>>

(***************************************************************************)
(* C7.  When the tokenizer yields no token, construct_tree returns a       *)
(* Window whose Document has no children, and LayoutView::new on that      *)
(* Document gives a view with root none.                                   *)
(***************************************************************************)
C7_EmptyInput ==
    (pc = "returned" /\ pos = 1 /\ token = NoneTok) =>
        /\ nodes[Document].first_child = 0
        /\ lpc \in {"idle", "view"}
        /\ layout.root = 0

(***************************************************************************)
(* Reading the cascade.                                                    *)
(***************************************************************************)
\* The declarations of the rules that select n, in rule and declaration order.
RECURSIVE MatchingFrom(_, _)
MatchingFrom(n, rules) ==
    IF rules = <<>> THEN <<>>
    ELSE (IF is_node_selected(nodes[n], Head(rules).selector)
          THEN Head(rules).declarations ELSE <<>>)
         \o MatchingFrom(n, Tail(rules))

MatchingDeclarations(n) == MatchingFrom(n, cssom)

Properties == {"display", "color", "background-color"}

PropertyField(p) ==
    CASE p = "display" -> "display"
      [] p = "color" -> "color"
      [] p = "background-color" -> "background_color"

DeclarationsOf(n, p) ==
    SelectSeq(MatchingDeclarations(n), LAMBDA d : d.property = p)

\* The value kinds cascading_style takes for a property.
Accepted(d) ==
    \/ d.value.type = "Ident"
    \/ d.property # "display" /\ d.value.type = "HashToken"

AcceptedDeclarationsOf(n, p) == SelectSeq(DeclarationsOf(n, p), Accepted)

\* The value one declaration alone gives to property p.
GivenBy(d, p) == CascadeDeclaration(ComputedStyleNew, d)[PropertyField(p)]

UnknownDisplay(n) ==
    LET ds == AcceptedDeclarationsOf(n, "display") IN
    ds # <<>> /\ Last(ds).value.v \notin {"block", "inline", "none"}

C9_UnknownDisplayHides ==
    lpc = "built" =>
        \A n \in 1..Len(nodes) :
            (InSubtree(n, nodes[Body].parent) /\ n # nodes[Body].parent
                /\ UnknownDisplay(n)) =>
                /\ ResolvedDisplay(n) = "None"
                /\ \A m \in 1..Len(nodes) : InSubtree(m, n) => BoxesOf(m) = {}

\* p{display:flex}: a p with a child under a body that got its box; the p and
\* its child have none although p would be Block by default.
C9_Witness ==
    /\ lpc = "built"
    /\ layout.root # 0
    /\ \E n \in 1..Len(nodes) :
          /\ UnknownDisplay(n)
          /\ nodes[n].parent = Body
          /\ nodes[n].first_child # 0
          /\ DisplayTypeDefault(nodes[n]) = "Block"
          /\ BoxesOf(n) = {}
          /\ BoxesOf(nodes[n].first_child) = {}

(***************************************************************************)
(* C10.  Every box of the finished tree has kind Block or Inline when its  *)
(* node is an element, Block exactly when its display is block and Inline  *)
(* exactly when it is inline, and kind Text when its node is a text node;  *)
(* no box has kind Unknown or display none.                                *)
(***************************************************************************)
C10_BoxKinds ==
    lpc = "built" =>
        \A b \in TreeBoxes :
            LET box == layout.boxes[b] IN
            /\ box.kind # "Unknown"
            /\ box.style.display # "None"
            /\ nodes[box.node].kind = "Element" =>
                  /\ box.kind \in {"Block", "Inline"}
                  /\ box.kind = "Block" <=> box.style.display = "Block"
                  /\ box.kind = "Inline" <=> box.style.display = "Inline"
            /\ nodes[box.node].kind = "Text" => box.kind = "Text"
            /\ nodes[box.node].kind \in {"Element", "Text"}

\* A tree with a Block box, an Inline box of an element and a Text box.
C10_Witness ==
    /\ lpc = "built"
    /\ \E b \in TreeBoxes : layout.boxes[b].kind = "Block"
    /\ \E b \in TreeBoxes :
          layout.boxes[b].kind = "Inline" /\ nodes[layout.boxes[b].node].kind = "Element"
    /\ \E b \in TreeBoxes : layout.boxes[b].kind = "Text"

(***************************************************************************)
(* C11.  In AfterHead a token that is not a space / newline character, not *)
(* a <body> start tag and not end-of-input inserts a body element without  *)
(* attributes and sets the mode to InBody; the token is not consumed, so   *)
(* the next iteration is InBody on that same token.                        *)
(***************************************************************************)
C11_Step ==
    (pc = "loop" /\ mode = "AfterHead" /\ token.type # "None" /\ ~IsWs(token)
        /\ token.type # "Eof" /\ ~(token.type = "StartTag" /\ token.tag = "body")) =>
        /\ InsertedElement
        /\ nodes'[Len(nodes')].ekind = "Body"
        /\ nodes'[Len(nodes')].attributes = <<>>
        /\ mode' = "InBody"
        /\ pc' = "loop"
        /\ token' = token
        /\ pos' = pos

C11_AfterHeadSynthesizesBody == [][C11_Step]_vars

\* <html> <head> <html>: InHead left for AfterHead on the third token, which
\* made the body and is still the current token in InBody.
C11_Witness ==
    /\ pc = "loop"
    /\ mode = "InBody"
    /\ pos = 3
    /\ token.type = "StartTag"
    /\ token.tag = "html"
    /\ Len(nodes) = 4
    /\ nodes[2].ekind = "Html"
    /\ nodes[3].ekind = "Head"
    /\ nodes[4].ekind = "Body"
    /\ nodes[4].attributes = <<>>

(***************************************************************************)
(* C12.  In AfterBody and in AfterAfterBody a token that is neither a      *)
(* character nor end-of-input (nor </html> in AfterBody) sets the mode     *)
(* back to InBody and is left to be processed there.                       *)
(***************************************************************************)
C12_Step ==
    (pc = "loop" /\ mode \in {"AfterBody", "AfterAfterBody"}
        /\ token.type \in {"StartTag", "EndTag"}
        /\ ~(mode = "AfterBody" /\ token.type = "EndTag" /\ token.tag = "html")) =>
        /\ mode' = "InBody"
        /\ pc' = "loop"
        /\ token' = token
        /\ pos' = pos

C12_FallbackToInBody == [][C12_Step]_vars

(***************************************************************************)
(* C13.  Whenever the tree builder is about to pop for an element kind,    *)
(* that kind is on the open-element stack: pop_until's assertion holds at  *)
(* each of its call sites, and on </html> with body on top the entry below *)
(* body is html.                                                           *)
(***************************************************************************)
C13_NoAbsentPop ==
    pc = "loop" =>
        /\ (mode = "InHead" /\ token.type = "StartTag"
                /\ token.tag \notin {"style", "script"}
                /\ (token.tag = "body" \/ ElementKindFromStr(token.tag).ok)) =>
               contains_in_stack(Cur, "Head")
        /\ (mode = "InHead" /\ token.type = "EndTag" /\ token.tag = "head") =>
               contains_in_stack(Cur, "Head")
        /\ (mode = "InBody" /\ token.type = "EndTag"
                /\ token.tag \in {"p", "h1", "h2", "a"}
                /\ ElementKindFromStr(token.tag).ok) =>
               contains_in_stack(Cur, ElementKindFromStr(token.tag).kind)
        /\ (mode = "InBody" /\ token.type = "EndTag" /\ token.tag = "html"
                /\ Popped(Cur, "Body")) =>
               Popped(pop_current_node(Cur, "Body"), "Html")
        /\ (mode = "Text" /\ token.type = "EndTag" /\ token.tag = "style") =>
               contains_in_stack(Cur, "Style")
        /\ (mode = "Text" /\ token.type = "EndTag" /\ token.tag = "script") =>
               contains_in_stack(Cur, "Script")

(***************************************************************************)
(* C14.  The insertion mode never moves backward in the order Initial,     *)
(* BeforeHtml, BeforeHead, InHead, AfterHead, InBody, AfterBody,           *)
(* AfterAfterBody, except when Text is left for the saved original mode    *)
(* and when AfterBody / AfterAfterBody fall back to InBody.                *)
(***************************************************************************)
ModeRank(m) ==
    CASE m = "Initial" -> 1 [] m = "BeforeHtml" -> 2 [] m = "BeforeHead" -> 3
      [] m = "InHead" -> 4 [] m = "AfterHead" -> 5 [] m = "InBody" -> 6
      [] m = "AfterBody" -> 7 [] m = "AfterAfterBody" -> 8

C14_Step ==
    IF mode = "Text" THEN mode' \in {"Text", original_insertion_mode}
    ELSE IF mode' = "Text" THEN TRUE
    ELSE \/ ModeRank(mode') >= ModeRank(mode)
         \/ mode \in {"AfterBody", "AfterAfterBody"} /\ mode' = "InBody"

C14_ModeOrder == [][C14_Step]_vars

\* The builder is in InBody with a body element that is no longer open: it
\* came back from AfterBody by the fallback, after a style element in the head.
C14_Witness ==
    /\ pc = "loop"
    /\ mode = "InBody"
    /\ \E n \in 1..Len(nodes) : ElementKindOf(nodes[n]) = "Body"
    /\ \E n \in 1..Len(nodes) : ElementKindOf(nodes[n]) = "Style"
    /\ ~contains_in_stack(Cur, "Body")

(***************************************************************************)
(* C18.  In InHead a <body> start tag, or a start tag naming another       *)
(* element kind than style / script, pops the open-element stack up to and *)
(* including head and sets the mode to AfterHead without consuming the     *)
(* token; a start tag with an unknown name is consumed and the DOM, the    *)
(* stack and the mode stay as they are.                                    *)
(***************************************************************************)
\* The tag names of the variants of ElementKind.
ElementKindTags == {"html", "head", "style", "script", "body", "p", "h1", "h2", "a"}

C18_Step ==
    (pc = "loop" /\ mode = "InHead" /\ token.type = "StartTag"
        /\ token.tag \notin {"style", "script"}) =>
        IF token.tag \in ElementKindTags
        THEN /\ pc' = "loop"
             /\ mode' = "AfterHead"
             /\ stack_of_open_elements' =
                    PopLoop(nodes, stack_of_open_elements, "Head")
             /\ ~contains_in_stack([stack |-> stack_of_open_elements', nodes |-> nodes'],
                                   "Head")
             /\ UNCHANGED <<nodes, token, pos>>
        ELSE /\ pos' = pos + 1
             /\ UNCHANGED <<nodes, stack_of_open_elements, mode>>

C18_InHeadStartTag == [][C18_Step]_vars

(***************************************************************************)
(* C19.  Text is entered only by the insertion of a style or script        *)
(* element in InHead, with InHead saved as the original insertion mode;    *)
(* the end tag of that element pops the stack through the element and      *)
(* restores the saved mode, and the open-element stack is then what it was *)
(* just before the element was inserted.                                   *)
(***************************************************************************)
C19_Step ==
    /\ (mode # "Text" /\ mode' = "Text") =>
          /\ mode = "InHead"
          /\ token.type = "StartTag"
          /\ token.tag \in {"style", "script"}
          /\ InsertedElement
          /\ nodes'[Len(nodes')].ekind = ElementKindFromStr(token.tag).kind
          /\ original_insertion_mode' = "InHead"
          /\ stack_of_open_elements' = Append(stack_of_open_elements, Len(nodes'))
    /\ (pc = "loop" /\ mode = "Text" /\ token.type = "EndTag"
            /\ token.tag \in {"style", "script"}
            /\ Len(stack_of_open_elements) > Len(text_entry)
            /\ ElementKindOf(nodes[stack_of_open_elements[Len(text_entry) + 1]])
                   = ElementKindFromStr(token.tag).kind) =>
          /\ pc' = "loop"
          /\ mode' = original_insertion_mode
          /\ mode' = "InHead"
          /\ stack_of_open_elements' = text_entry
          /\ pos' = pos + 1

C19_TextMode == [][C19_Step]_vars

\* Back in InHead after <style>, some characters and </style>: the stack is
\* the one saved at the insertion although the Text node was pushed too.
C19_Witness ==
    /\ pc = "loop"
    /\ mode = "InHead"
    /\ text_entry # <<>>
    /\ stack_of_open_elements = text_entry
    /\ \E n \in 1..Len(nodes) :
          /\ ElementKindOf(nodes[n]) = "Style"
          /\ nodes[n].first_child # 0
          /\ nodes[nodes[n].first_child].kind = "Text"

(***************************************************************************)
(* C20.  In InBody an </html> end tag pops body and then html from the     *)
(* open-element stack and sets the mode to AfterBody, in every reachable   *)
(* state.                                                                  *)
(***************************************************************************)
C20_Step ==
    (pc = "loop" /\ mode = "InBody" /\ token.type = "EndTag" /\ token.tag = "html") =>
        /\ pc' = "loop"
        /\ mode' = "AfterBody"
        /\ Len(stack_of_open_elements) >= 2
        /\ ElementKindOf(nodes[Last(stack_of_open_elements)]) = "Body"
        /\ ElementKindOf(nodes[Last(Front(stack_of_open_elements))]) = "Html"
        /\ stack_of_open_elements' = Front(Front(stack_of_open_elements))

C20_InBodyEndHtml == [][C20_Step]_vars

(***************************************************************************)
(* C15.  Once receive_response has been called and has ended, the frame,   *)
(* the style sheet, the layout view and the display items of the page are  *)
(* all those made from the most recent response, and from no other.        *)
(***************************************************************************)
C15_MostRecentResponse ==
    (responses > 0 /\ ui_pc \in {"run", "panic"}) =>
        page = [frame |-> responses, style |-> responses,
                layout_view |-> responses, display_items |-> responses]

(***************************************************************************)
(* C16.  A navigation in which handle_url returns an error ends with the   *)
(* failure reported, and the content area is as it was before the          *)
(* navigation: clear_content_area has not run on it.                       *)
(***************************************************************************)
C16_Step ==
    (ui_pc = "run" /\ ui_pc' = "failed") =>
        /\ content_area' = content_area
        /\ clears' = clears

C16_FailedNavigationKeepsContent == [][C16_Step]_vars

(***************************************************************************)
(* Reading a style text as lexemes: names, digit runs, quoted strings and  *)
(* the punctuation characters, separated by spaces and newlines.  s[i] is  *)
(* the i-th character.                                                     *)
(***************************************************************************)
Puncts == {"{", "}", ":", ";", "(", ")", ","}

Quotes == {DOUBLE_QUOTE, SINGLE_QUOTE}

Blanks == {SPACE, LINE_FEED}

NameStart == {c \in CssChars : is_ascii_alphabetic(c) \/ c = "_"}

NameRest == NameStart \cup Digits

PunctToken(c) ==
    CASE c = "{" -> OpenCurly [] c = "}" -> CloseCurly [] c = ":" -> Colon
      [] c = ";" -> SemiColon [] c = "(" -> OpenParenthesis
      [] c = ")" -> CloseParenthesis [] c = "," -> Delim(",")

\* The first position from i on whose character is not in S (Len(s) + 1 if none).
RECURSIVE RunEnd(_, _, _)
RunEnd(s, i, S) == IF i > Len(s) \/ s[i] \notin S THEN i ELSE RunEnd(s, i + 1, S)

\* The first position from i on that holds the quote q (0 if none).
RECURSIVE QuoteEnd(_, _, _)
QuoteEnd(s, i, q) ==
    IF i > Len(s) THEN 0 ELSE IF s[i] = q THEN i ELSE QuoteEnd(s, i + 1, q)

RECURSIVE Decimal(_)
Decimal(ds) == IF ds = <<>> THEN 0 ELSE Decimal(Front(ds)) * 10 + to_digit(Last(ds))

\* From position i, outside a string: every string is closed by the quote that
\* opened it and every other character is of the kinds above.
RECURSIVE WellFormedFrom(_, _)
WellFormedFrom(s, i) ==
    IF i > Len(s) THEN TRUE
    ELSE IF s[i] \in Quotes
         THEN /\ QuoteEnd(s, i + 1, s[i]) # 0
              /\ WellFormedFrom(s, QuoteEnd(s, i + 1, s[i]) + 1)
    ELSE /\ s[i] \in NameRest \cup Puncts \cup Blanks
         /\ WellFormedFrom(s, i + 1)

InClass(s) == s # <<>> /\ Last(s) \in Puncts /\ WellFormedFrom(s, 1)

\* The token of each lexeme from position i on, in input order.
RECURSIVE Lexemes(_, _)
Lexemes(s, i) ==
    IF i > Len(s) THEN <<>>
    ELSE IF s[i] \in Blanks THEN Lexemes(s, i + 1)
    ELSE IF s[i] \in Puncts THEN <<PunctToken(s[i])>> \o Lexemes(s, i + 1)
    ELSE IF s[i] \in Quotes
         THEN <<StringToken(SubSeq(s, i + 1, QuoteEnd(s, i + 1, s[i]) - 1))>>
              \o Lexemes(s, QuoteEnd(s, i + 1, s[i]) + 1)
    ELSE IF s[i] \in Digits
         THEN <<Number(<<Decimal(SubSeq(s, i, RunEnd(s, i, Digits) - 1)), 0>>)>>
              \o Lexemes(s, RunEnd(s, i, Digits))
    ELSE <<Ident(SubSeq(s, i, RunEnd(s, i, NameRest) - 1))>>
         \o Lexemes(s, RunEnd(s, i, NameRest))

\* s without the runs of spaces / newlines that touch a punctuation character
\* outside a string.
RECURSIVE Squeeze(_, _)
Squeeze(s, i) ==
    IF i > Len(s) THEN <<>>
    ELSE IF s[i] \in Quotes
         THEN SubSeq(s, i, QuoteEnd(s, i + 1, s[i]))
              \o Squeeze(s, QuoteEnd(s, i + 1, s[i]) + 1)
    ELSE IF s[i] \in Blanks
         THEN (IF \/ i > 1 /\ s[i - 1] \in Puncts
                  \/ RunEnd(s, i, Blanks) <= Len(s) /\ s[RunEnd(s, i, Blanks)] \in Puncts
               THEN <<>> ELSE SubSeq(s, i, RunEnd(s, i, Blanks) - 1))
              \o Squeeze(s, RunEnd(s, i, Blanks))
    ELSE <<s[i]>> \o Squeeze(s, i + 1)

\* s with a newline in front of and a space behind every punctuation character
\* outside a string.
RECURSIVE Spread(_, _)
Spread(s, i) ==
    IF i > Len(s) THEN <<>>
    ELSE IF s[i] \in Quotes
         THEN SubSeq(s, i, QuoteEnd(s, i + 1, s[i]))
              \o Spread(s, QuoteEnd(s, i + 1, s[i]) + 1)
    ELSE IF s[i] \in Puncts THEN <<LINE_FEED, s[i], SPACE>> \o Spread(s, i + 1)
    ELSE <<s[i]>> \o Spread(s, i + 1)

IsPrefix(a, b) == Len(a) <= Len(b) /\ a = SubSeq(b, 1, Len(a))

(***************************************************************************)
(* C17.  For a style text of names, the punctuation { } : ; ( ) , digit    *)
(* runs, quoted strings and spaces / newlines that ends in a punctuation   *)
(* character, the tokens next returns are the tokens of the lexemes in     *)
(* input order (Ident with the name, Number with the value of the digit    *)
(* run, StringToken with the text between the quotes, the punctuation      *)
(* token) and then None; the text without the spaces / newlines next to    *)
(* punctuation, and the text with more of them, give the same tokens.      *)
(***************************************************************************)
C17_TokenPerLexeme ==
    (cpc # "idle" /\ InClass(input)) =>
        /\ cpc # "panic"
        /\ IsPrefix(css_tokens, Lexemes(input, 1))
        /\ cpc = "done" =>
              /\ css_tokens = Lexemes(input, 1)
              /\ CssCollect(Squeeze(input, 1), 0, <<>>) = [ok |-> TRUE, tokens |-> css_tokens]
              /\ CssCollect(Spread(input, 1), 0, <<>>) = [ok |-> TRUE, tokens |-> css_tokens]

\* The strings of s hold no quote character of either kind.
RECURSIVE PlainStrings(_, _)
PlainStrings(s, i) ==
    IF i > Len(s) THEN TRUE
    ELSE IF s[i] \in Quotes
         THEN /\ \A j \in (i + 1)..(QuoteEnd(s, i + 1, s[i]) - 1) : s[j] \notin Quotes
              /\ PlainStrings(s, QuoteEnd(s, i + 1, s[i]) + 1)
    ELSE PlainStrings(s, i + 1)

\* The same for the texts whose strings hold no quote character: this holds.
TokenPerLexemePlain ==
    (cpc # "idle" /\ InClass(input) /\ PlainStrings(input, 1)) =>
        /\ cpc # "panic"
        /\ IsPrefix(css_tokens, Lexemes(input, 1))
        /\ cpc = "done" =>
              /\ css_tokens = Lexemes(input, 1)
              /\ CssCollect(Squeeze(input, 1), 0, <<>>) = [ok |-> TRUE, tokens |-> css_tokens]
              /\ CssCollect(Spread(input, 1), 0, <<>>) = [ok |-> TRUE, tokens |-> css_tokens]

(***************************************************************************)
(* C21.  In InBody an end tag </p>, </h1>, </h2> or </a> removes from the  *)
(* open-element stack the topmost element of that kind and every entry     *)
(* above it, leaves the entries below it as they are, and changes neither  *)
(* the DOM nor the mode.                                                   *)
(***************************************************************************)
\* The position in stack of the topmost element of kind k (0 when there is none).
TopmostOf(ns, stack, k) ==
    IF \E i \in 1..Len(stack) : ElementKindOf(ns[stack[i]]) = k
    THEN CHOOSE i \in 1..Len(stack) :
             /\ ElementKindOf(ns[stack[i]]) = k
             /\ \A j \in (i + 1)..Len(stack) : ElementKindOf(ns[stack[j]]) # k
    ELSE 0

C21_Step ==
    (pc = "loop" /\ mode = "InBody" /\ token.type = "EndTag"
        /\ token.tag \in {"p", "h1", "h2", "a"}) =>
        /\ pc' = "loop"
        /\ UNCHANGED <<nodes, mode>>
        /\ TopmostOf(nodes, stack_of_open_elements, KindOfTag(token.tag)) # 0 =>
               stack_of_open_elements' =
                   SubSeq(stack_of_open_elements, 1,
                          TopmostOf(nodes, stack_of_open_elements, KindOfTag(token.tag)) - 1)

C21_InBodyEndTag == [][C21_Step]_vars

(***************************************************************************)
(* C22.  In BeforeHead a token that is not a space / newline character,    *)
(* not a <head> start tag and not end-of-input is ignored: it is consumed, *)
(* the DOM, the stack and the mode stay as they are, and the builder goes  *)
(* on with the next token.                                                 *)
(***************************************************************************)
C22_Step ==
    (pc = "loop" /\ mode = "BeforeHead" /\ token.type # "None" /\ ~IsWs(token)
        /\ token.type # "Eof" /\ ~(token.type = "StartTag" /\ token.tag = "head")) =>
        /\ pc' = "loop"
        /\ pos' = pos + 1
        /\ UNCHANGED <<nodes, stack_of_open_elements, mode>>

C22_BeforeHeadIgnores == [][C22_Step]_vars

(***************************************************************************)
(* C23.  In Text a token that is not a character, not a </style> or        *)
(* </script> end tag and not end-of-input is ignored: it is consumed and   *)
(* the DOM, the open-element stack and the mode stay unchanged.            *)
(***************************************************************************)
C23_Step ==
    (pc = "loop" /\ mode = "Text" /\ token.type \in {"StartTag", "EndTag"}
        /\ ~(token.type = "EndTag" /\ token.tag \in {"style", "script"})) =>
        /\ pc' = "loop"
        /\ pos' = pos + 1
        /\ UNCHANGED <<nodes, stack_of_open_elements, mode>>

C23_TextIgnores == [][C23_Step]_vars

(***************************************************************************)
(* C24.  In AfterHead a space or newline character token is inserted as    *)
(* text into the DOM: a Text node is added for it, or it is appended to    *)
(* the text of the current Text node.                                      *)
(***************************************************************************)
C24_Step ==
    (pc = "loop" /\ mode = "AfterHead" /\ IsWs(token)) =>
        \/ /\ Len(nodes') = Len(nodes) + 1
           /\ nodes'[Len(nodes')].kind = "Text"
           /\ nodes'[Len(nodes')].text = <<token.c>>
        \/ /\ Len(nodes') = Len(nodes)
           /\ \E n \in 1..Len(nodes) :
                 /\ nodes[n].kind = "Text"
                 /\ nodes'[n].text = Append(nodes[n].text, token.c)

NoDuplicates(s) == \A i, j \in 1..Len(s) : s[i] = s[j] => i = j

ChildrenSet(n) == {m \in 1..Len(nodes) : nodes[m].parent = n}

C25_DomLinks ==
    /\ nodes[Document].parent = 0
    /\ \A n \in 1..Len(nodes) :
          LET chain == Children(nodes, n) IN
          /\ NoDuplicates(chain)
          /\ {chain[i] : i \in 1..Len(chain)} = ChildrenSet(n)
          /\ nodes[n].last_child = IF chain = <<>> THEN 0 ELSE Last(chain)
          /\ (nodes[n].last_child # 0) => nodes[nodes[n].last_child].next_sibling = 0
          /\ n # Document =>
                /\ nodes[n].parent \in 1..(n - 1)
                /\ Cardinality({p \in 1..Len(nodes) :
                        \E i \in 1..Len(Children(nodes, p)) : Children(nodes, p)[i] = n}) = 1

\* A document whose html has two children, the second with a child of its own.
C25_Witness ==
    /\ pc = "loop"
    /\ \E n, m \in 1..Len(nodes) :
          /\ Len(Children(nodes, n)) = 2
          /\ ElementKindOf(nodes[n]) = "Html"
          /\ m = Children(nodes, n)[2]
          /\ nodes[m].first_child # 0
          /\ nodes[nodes[m].first_child].kind = "Text"

(***************************************************************************)
(* C26.  Every Text node of the DOM, in every reachable state, whichever   *)
(* mode inserted its characters, has a non-empty string whose first        *)
(* character is neither a space nor a newline.                             *)
(***************************************************************************)
C26_TextNodes ==
    \A n \in 1..Len(nodes) :
        nodes[n].kind = "Text" =>
            /\ nodes[n].text # <<>>
            /\ ~IsSpace(nodes[n].text[1])

\* A Text node under style made from " a " (the leading space dropped, the
\* trailing one kept) after a space in AfterHead or InHead made none.
C26_Witness ==
    \E n \in 1..Len(nodes) :
        /\ nodes[n].kind = "Text"
        /\ nodes[n].text = <<"a", SPACE>>
        /\ ElementKindOf(nodes[nodes[n].parent]) = "Style"
        /\ run.chars = <<>>
        /\ pos = 5

(***************************************************************************)
(* C27.  For every box B of the layout tree that is in the child chain of  *)
(* a box P (P's first child, or reached from it by next-sibling links),    *)
(* the parent back-reference of B is P.                                    *)
(***************************************************************************)
RECURSIVE SiblingChain(_)
SiblingChain(b) ==
    IF b = 0 THEN {} ELSE {b} \cup SiblingChain(layout.boxes[b].next_sibling)

HeadOf ==
    IF \E i \in 1..Len(nodes) : ElementKindOf(nodes[i]) = "Head"
    THEN CHOOSE i \in 1..Len(nodes) : ElementKindOf(nodes[i]) = "Head"
    ELSE 0

C28_NoHeadBoxes ==
    /\ (pc = "returned" /\ lpc = "idle") =>
           \A body \in {i \in 1..Len(nodes) : ElementKindOf(nodes[i]) = "Body"} :
               build_layout_tree(body, 0, <<>>).ok
    /\ lpc = "built" =>
           \A b \in 1..Len(layout.boxes) :
               LET n == layout.boxes[b].node IN
               /\ nodes[n].kind # "Document"
               /\ ElementKindOf(nodes[n]) \notin {"Head", "Style", "Script"}
               /\ ~InSubtree(n, HeadOf)

\* A tree was built for a document whose head holds a style element with text
\* and a script element, and whose body has a child: body and the child have
\* boxes.
C28_Witness ==
    /\ lpc = "built"
    /\ HeadOf # 0
    /\ \E s, t \in 1..Len(nodes) :
          /\ ElementKindOf(nodes[s]) = "Style"
          /\ nodes[s].parent = HeadOf
          /\ nodes[t].kind = "Text"
          /\ nodes[t].parent = s
    /\ layout.root # 0
    /\ layout.boxes[layout.root].node = Body
    /\ layout.boxes[layout.root].first_child # 0

(***************************************************************************)
(* C29.  After the size pass every Block box is as wide as its parent box, *)
(* the box in whose child chain it is, also when that box is an Inline;    *)
(* a Block box in no child chain (the root and its siblings) is            *)
(* CONTENT_AREA_WIDTH wide.                                                *)
(***************************************************************************)
ParentBox(b) ==
    IF \E p \in TreeBoxes : b \in SiblingChain(layout.boxes[p].first_child)
    THEN CHOOSE p \in TreeBoxes : b \in SiblingChain(layout.boxes[p].first_child)
    ELSE 0

PreviousSibling(c) ==
    IF \E q \in TreeBoxes : layout.boxes[q].next_sibling = c
    THEN CHOOSE q \in TreeBoxes : layout.boxes[q].next_sibling = c
    ELSE 0

CountedChildren(p) ==
    {c \in SiblingChain(layout.boxes[p].first_child) :
        \/ layout.boxes[c].kind = "Block"
        \/ c = layout.boxes[p].first_child
        \/ layout.boxes[PreviousSibling(c)].kind = "Block"}

RECURSIVE SumOfHeights(_)
SumOfHeights(S) ==
    IF S = {} THEN 0
    ELSE LET c == CHOOSE x \in S : TRUE
         IN  layout.boxes[c].size[2] + SumOfHeights(S \ {c})

C30_BlockHeight ==
    lpc = "laid" =>
        \A p \in TreeBoxes :
            layout.boxes[p].kind = "Block" =>
                layout.boxes[p].size[2] = SumOfHeights(CountedChildren(p))

\* A laid out Block with a counted child and a child that is not counted, both
\* of positive height, and a laid out Block without children.
C30_Witness ==
    /\ lpc = "laid"
    /\ \E p \in TreeBoxes :
          /\ layout.boxes[p].kind = "Block"
          /\ \E c \in CountedChildren(p) : layout.boxes[c].size[2] > 0
          /\ \E c \in SiblingChain(layout.boxes[p].first_child) \ CountedChildren(p) :
                layout.boxes[c].size[2] > 0
    /\ \E p \in TreeBoxes :
          /\ layout.boxes[p].kind = "Block"
          /\ layout.boxes[p].first_child = 0
          /\ layout.boxes[p].size[2] = 0

(***************************************************************************)
(* C31.  After the size pass a Text box over a string of n characters with *)
(* font ratio r has, with w = CHAR_WIDTH * r * n, the size                 *)
(* (w, CHAR_HEIGHT_WITH_PADDING * r) when w <= CONTENT_AREA_WIDTH and      *)
(* otherwise the width CONTENT_AREA_WIDTH and the height                   *)
(* CHAR_HEIGHT_WITH_PADDING * r * ceil(w / CONTENT_AREA_WIDTH); no Text    *)
(* box is wider than CONTENT_AREA_WIDTH.                                   *)
(***************************************************************************)
Ceil(a, b) == (a + b - 1) \div b

RawWidth(b) ==
    CHAR_WIDTH * FontRatio(layout.boxes[b].style.font_size)
        * Len(nodes[layout.boxes[b].node].text)

C31_TextSize ==
    lpc = "laid" =>
        \A b \in TreeBoxes :
            layout.boxes[b].kind = "Text" =>
                /\ layout.boxes[b].size[1] <= CONTENT_AREA_WIDTH
                /\ layout.boxes[b].size =
                      IF RawWidth(b) <= CONTENT_AREA_WIDTH
                      THEN <<RawWidth(b),
                             CHAR_HEIGHT_WITH_PADDING
                                * FontRatio(layout.boxes[b].style.font_size)>>
                      ELSE <<CONTENT_AREA_WIDTH,
                             CHAR_HEIGHT_WITH_PADDING
                                * FontRatio(layout.boxes[b].style.font_size)
                                * Ceil(RawWidth(b), CONTENT_AREA_WIDTH)>>

(***************************************************************************)
(* C32.  After the position pass a box that has a previous sibling and is  *)
(* a Block, or follows a Block, is at x = parent.x and                     *)
(* y = previous.y + previous.height; a box without a previous sibling is   *)
(* at the point of its parent; the root is at (0, 0).  The parent point of *)
(* a box in no child chain is (0, 0).                                      *)
(***************************************************************************)
ParentPoint(b) ==
    IF ParentBox(b) = 0 THEN <<0, 0>> ELSE layout.boxes[ParentBox(b)].point

C32_BlockPosition ==
    lpc = "laid" =>
        /\ layout.root # 0 => layout.boxes[layout.root].point = <<0, 0>>
        /\ \A b \in TreeBoxes :
              IF PreviousSibling(b) = 0
              THEN layout.boxes[b].point = ParentPoint(b)
              ELSE (\/ layout.boxes[b].kind = "Block"
                    \/ layout.boxes[PreviousSibling(b)].kind = "Block") =>
                       layout.boxes[b].point =
                          <<ParentPoint(b)[1],
                            layout.boxes[PreviousSibling(b)].point[2]
                               + layout.boxes[PreviousSibling(b)].size[2]>>

\* A Block below a sibling of positive height, inside a box that is not at
\* the left edge of the page.
C32_Witness ==
    /\ lpc = "laid"
    /\ \E b \in TreeBoxes :
          /\ layout.boxes[b].kind = "Block"
          /\ PreviousSibling(b) # 0
          /\ layout.boxes[PreviousSibling(b)].size[2] > 0
          /\ ParentBox(b) # 0
          /\ ParentPoint(b)[1] > 0
          /\ layout.boxes[b].point[1] = ParentPoint(b)[1]
          /\ layout.boxes[b].point[2] > ParentPoint(b)[2]

find_node_by_position(position) ==
    IF \E b \in TreeBoxes :
          /\ layout.boxes[b].point[1] <= position[1]
          /\ position[1] < layout.boxes[b].point[1] + layout.boxes[b].size[1]
          /\ layout.boxes[b].point[2] <= position[2]
          /\ position[2] < layout.boxes[b].point[2] + layout.boxes[b].size[2]
    THEN {<<b>> : b \in {x \in TreeBoxes :
                    /\ layout.boxes[x].point[1] <= position[1]
                    /\ position[1] < layout.boxes[x].point[1] + layout.boxes[x].size[1]
                    /\ layout.boxes[x].point[2] <= position[2]
                    /\ position[2] < layout.boxes[x].point[2] + layout.boxes[x].size[2]}}
    ELSE {<<>>}

\* Page::get_link_at, lines 95-105, for the box find_node_by_position gave:
\* the parent back-reference of the box, and the href of its node when that
\* is an <a> element.
PageGetLinkAt(found) ==
    IF found = <<>> THEN <<>>
    ELSE IF layout.boxes[found[1]].parent = 0 THEN <<>>
    ELSE IF ElementKindOf(nodes[layout.boxes[layout.boxes[found[1]].parent].node]) = "A"
    THEN get_attr(nodes[layout.boxes[layout.boxes[found[1]].parent].node].attributes,
                  "href")
    ELSE <<>>

\* Positions the UI asks about: in the first character cell, right of it,
\* and on the second line.
Positions == {<<4, 10>>, <<12, 10>>, <<4, 30>>}

\* page.get_link_at(position) on the laid out tree; candidate keeps the
\* position, the box found and the link returned.
GetLinkAt ==
    /\ pc = "returned"
    /\ lpc = "laid"
    /\ lpc' = "hit"
    /\ \E position \in Positions :
          \E found \in find_node_by_position(position) :
              candidate' = <<[position |-> position, found |-> found,
                              link |-> PageGetLinkAt(found)]>>
    /\ UNCHANGED <<cssom, layout>>
    /\ UNCHANGED pvars
    /\ UNCHANGED <<cvars, uvars>>

\* Documents with links: the skeleton and up to MaxExtra further nodes, each
\* a link, a paragraph or a text.
LinkNodes ==
    { NewNode("Element", "A", <<Attr("href", "u")>>, <<>>),
      NewNode("Element", "P", <<>>, <<>>),
      NewNode("Text", "", <<>>, <<"a">>) }

RECURSIVE LinkDomsWith(_)
LinkDomsWith(k) ==
    IF k = 0 THEN {Skeleton}
    ELSE UNION { { DomInsert(ns, p, n) : p \in ParentsIn(ns) \ {2}, n \in LinkNodes }
                 : ns \in LinkDomsWith(k - 1) }

LinkDoms == UNION { LinkDomsWith(k) : k \in 0..MaxExtra }

LinkInit ==
    /\ Returned
    /\ CssIdle
    /\ UiIdle
    /\ nodes \in LinkDoms
    /\ cssom = <<>>

LinkNext ==
    \/ BuildLayoutTree
    \/ UpdateLayout
    \/ GetLinkAt

LinkSpec == LinkInit /\ [][LinkNext]_vars

(***************************************************************************)
(* C34.  get_link_at gives the href of the <a> element above the box found *)
(* at the position, whether the box is the first or a later child of the   *)
(* link, a direct child or deeper, and None when no <a> element with an    *)
(* href is above the box.                                                  *)
(***************************************************************************)
AnchorsAbove(n) ==
    {m \in 1..Len(nodes) :
        /\ m # n
        /\ InSubtree(n, m)
        /\ ElementKindOf(nodes[m]) = "A"
        /\ get_attr(nodes[m].attributes, "href") # <<>>}

C35_Step ==
    (ui_pc = "run" /\ ui_pc' = "failed") =>
        /\ page' = page
        /\ responses' = responses

C35_FailedNavigationKeepsPage == [][C35_Step]_vars

\* The loop was left with the error of a navigation started from the address
\* bar after some typing.
C35_Witness ==
    /\ ui_pc = "failed"
    /\ clears = 1
    /\ address_bar # <<>>
    /\ responses = 0
    /\ page = PageNew

(***************************************************************************)
(* C36.  In every state the DOM holds at most one html element, at most    *)
(* one head element and at most one body element.                          *)
(***************************************************************************)
ElementsOfKind(k) == {i \in 1..Len(nodes) : ElementKindOf(nodes[i]) = k}

C36_SingleHtmlHeadBody ==
    \A k \in {"Html", "Head", "Body"} : Cardinality(ElementsOfKind(k)) <= 1

\* html, head and body are in the DOM, once each, and the token at hand in
\* InBody is one more start tag of one of them.
C36_Witness ==
    /\ pc = "loop"
    /\ mode = "InBody"
    /\ token.type = "StartTag"
    /\ token.tag \in {"html", "head", "body"}
    /\ \A k \in {"Html", "Head", "Body"} : Cardinality(ElementsOfKind(k)) = 1

(***************************************************************************)
(* C37.  In every state the stack of open elements is an ancestor chain of *)
(* the DOM: its bottom entry is a child of the Document, every other entry *)
(* is a child of the entry below it, and no node is on the stack twice.    *)
(***************************************************************************)
C37_StackIsAncestorChain ==
    /\ NoDuplicates(stack_of_open_elements)
    /\ \A i \in 1..Len(stack_of_open_elements) :
          nodes[stack_of_open_elements[i]].parent =
              IF i = 1 THEN Document ELSE stack_of_open_elements[i - 1]

\* html, head, style and a text are open, one inside the other.
C37_Witness ==
    /\ Len(stack_of_open_elements) = 4
    /\ nodes[stack_of_open_elements[4]].kind = "Text"
    /\ ElementKindOf(nodes[stack_of_open_elements[1]]) = "Html"

C40_Step ==
    cpc = "run" =>
        /\ cpc' # "panic"
        /\ Len(css_tokens') > Len(css_tokens) => css_pos' > css_pos

C40_TokenizerStaysInside == [][C40_Step]_vars

====
